---- MODULE Spec2Model ----
(***************************************************************************)
(* Error-handling examples of examples/troubleshooting/fix-suggestions.js: *)
(* ApiClient (retry loop and circuit breaker), loginUserSecure and         *)
(* uploadFileSecure, each as a state machine whose steps are the stretches *)
(* of code between two awaits.                                             *)
(*                                                                         *)
(* Error messages are sequences of tokens (words and punctuation marks),   *)
(* so that String.prototype.includes is computed, as a search for a        *)
(* contiguous run of tokens, and not tabulated.                            *)
(***************************************************************************)
EXTENDS Integers, Sequences, FiniteSets, TLC

VARIABLES
    \* ---- environment shared by the examples
    now,              \* Date.now()
    localStorage,     \* key -> <<>> (absent) or <<value>>
    \* ---- ApiClient instance (constructor, lines 370-381)
    maxRetries,       \* this.maxRetries
    cbFailures,       \* this.circuitBreaker.failures
    cbLastFailure,    \* this.circuitBreaker.lastFailure
    cbThreshold,      \* this.circuitBreaker.threshold
    cbResetTimeout,   \* this.circuitBreaker.resetTimeout
    \* ---- one entry per call of ApiClient.request in flight
    apiPc,            \* "idle" | "fetching" | "waiting" | "done"
    apiAttempt,       \* the loop variable attempt
    apiFetches,       \* fetch(url, config) calls issued by the call
    apiLastError,     \* the local lastError
    apiLastStatus,    \* response.status of the latest response (0: none)
    apiOutcome,       \* "pending" | "resolved" | "rejected"
    apiThrown,        \* the error the call rejected with
    apiLogouts,       \* 'auth:logout' events the call dispatched
    \* ---- the call of loginUserSecure
    loginPc,          \* "idle" | "fetching" | "waiting" | "done"
    loginEmail,       \* the argument email
    loginPassword,    \* the argument password
    loginAttempt,     \* the loop variable attempt
    loginFetches,     \* fetch('/api/login', ...) calls issued by the call
    loginWaits,       \* backoff delays the call has started
    loginLastError,   \* the local lastError
    loginLastStatus,  \* response.status of the latest response (0: none)
    loginOutcome,     \* "pending" | "returned" | "thrown"
    loginThrown,      \* the error the call rejected with
    loginResult,      \* the value the call returned
    \* ---- the call of uploadFileSecure
    upPc,             \* "idle" | "init" | "uploading" | "cleanup" | "done"
    upFile,           \* the argument file
    upOptions,        \* the argument options
    uploadUrl,        \* the local uploadUrl (<<>>: undefined)
    uploadId,         \* the local uploadId (<<>>: undefined)
    upXhr,            \* the XMLHttpRequest: "unsent" | "sent" | "cleanup" | "done"
    upPending,        \* the error held across an await of cleanupFailedUpload
    upOutcome,        \* "pending" | "resolved" | "rejected"
    upThrown,         \* the error the call rejected with
    upInits,          \* POST /api/upload/init requests issued
    upSends,          \* xhr.send calls
    upDeletes,        \* DELETE /api/upload/{uploadId} requests issued
    upDeletesDone,    \* DELETE requests that have completed
    \* ---- DatabaseService instance (constructor, lines 760-765)
    connectionPool,   \* this.connectionPool: "null" | "pool"
    createConnectionPool, \* this.createConnectionPool: "undefined" | "function"
    \* ---- the call of executeQuery or of transaction
    dbPc,             \* "idle", the await the call is at, or "done"
    dbMethod,         \* "none" | "executeQuery" | "transaction"
    dbQuery,          \* the argument query of executeQuery
    connection,       \* the local connection (0: undefined)
    dbAttempt,        \* the local attempt of executeQuery
    dbReleases,       \* per connection obtained by the call, its release() calls
    dbExecutes,       \* connection.execute calls of the call
    dbResets,         \* replacements of the pool by resetConnection in the call
    dbError,          \* the error a catch block has caught
    dbCaught,         \* the errors the catch block of executeQuery caught, in order
    dbCompletion,     \* how the try statement completes after its finally block
    dbOutcome,        \* "pending" | "resolved" | "rejected"
    dbResult,         \* the value the call resolved with
    dbThrown,         \* the error the call rejected with
    operations,       \* the argument operations of transaction
    txI,              \* the loop variable i
    txResults,        \* the local results
    txCommits,        \* connection.commit calls
    txRollbacks,      \* connection.rollback calls
    txRollbackFailed, \* the latest rollback rejected
    \* ---- the call of processTextRobust or of sanitizeFilePathRobust
    sanPc,            \* "called" | "returned"
    sanFunction,      \* the function called ("none": neither)
    sanInput,         \* the argument text or filePath
    sanOptions,       \* the argument options, defaults filled in
    sanOutput         \* the string returned

envVars == <<now, localStorage>>
clientVars == <<maxRetries, cbFailures, cbLastFailure, cbThreshold, cbResetTimeout>>
callVars == <<apiPc, apiAttempt, apiFetches, apiLastError, apiLastStatus,
              apiOutcome, apiThrown, apiLogouts>>
apiVars == <<clientVars, callVars>>
loginVars == <<loginPc, loginEmail, loginPassword, loginAttempt, loginFetches, loginWaits,
               loginLastError, loginLastStatus, loginOutcome, loginThrown, loginResult>>
uploadVars == <<upPc, upFile, upOptions, uploadUrl, uploadId, upXhr, upPending, upOutcome,
                upThrown, upInits, upSends, upDeletes, upDeletesDone>>
txVars == <<operations, txI, txResults, txCommits, txRollbacks, txRollbackFailed>>
dbVars == <<connectionPool, createConnectionPool, dbPc, dbMethod, dbQuery, connection,
            dbAttempt, dbReleases, dbExecutes, dbResets, dbError, dbCaught, dbCompletion,
            dbOutcome, dbResult, dbThrown, txVars>>
sanVars == <<sanPc, sanFunction, sanInput, sanOptions, sanOutput>>
vars == <<envVars, apiVars, loginVars, uploadVars, dbVars, sanVars>>
\* what the steps of one example leave alone: the state of the others
notApiVars == <<loginVars, uploadVars, dbVars, sanVars>>
notLoginVars == <<apiVars, uploadVars, dbVars, sanVars>>
notUploadVars == <<envVars, apiVars, loginVars, dbVars, sanVars>>
notDbVars == <<envVars, apiVars, loginVars, uploadVars, sanVars>>
notSanVars == <<envVars, apiVars, loginVars, uploadVars, dbVars>>

----------------------------------------------------------------------------
\* Bounds of the model

\* the clock stops here
MaxTime == 3
\* no server failure is counted beyond this many
MaxFailures == 6
\* the longest email argument, in characters
MaxEmailLen == 5
\* the longest password argument, in characters
MaxPasswordLen == 9
\* the longest operations argument of transaction
MaxOps == 2
\* the longest text of letters, spaces and line breaks given to processTextRobust
MaxTextLen == 5
\* the longest path of dots, slashes and letters given to sanitizeFilePathRobust
MaxPathLen == 7

----------------------------------------------------------------------------
\* JavaScript values

\* null for a timestamp (timestamps are >= 0)
Null == -1

\* ToNumber(null) is 0 in Date.now() - this.circuitBreaker.lastFailure
ToNumber(x) == IF x = Null THEN 0 ELSE x

\* String.prototype.includes on token sequences
Includes(msg, needle) ==
    \E i \in 0..(Len(msg) - Len(needle)) :
        \A j \in 1..Len(needle) : msg[i + j] = needle[j]

\* x || y for strings: the empty string is falsy
OrElse(x, y) == IF x # <<>> THEN x ELSE y

\* x || y for numbers: 0 (and undefined, modelled as 0) is falsy
OrDefault(x, y) == IF x # 0 THEN x ELSE y

Error(name, message) == [name |-> name, message |-> message]

NoError == Error("none", <<>>)

----------------------------------------------------------------------------
\* ApiClient  (fix-suggestions.js, lines 369-570)

\* the calls of request() on the one client: they are made one after another,
\* and the circuit breaker carries over from each to the next
Calls == {"a"}

DefaultMaxRetries == 3
DefaultThreshold == 5
DefaultResetTimeout == 60000

\* the options the client is constructed with (0: the option is not given)
DefaultOptions ==
    [maxRetries |-> 0, circuitBreakerThreshold |-> 0, circuitBreakerReset |-> 0]

ClientOptions ==
    { DefaultOptions,
      [maxRetries |-> 2, circuitBreakerThreshold |-> 2, circuitBreakerReset |-> 2] }

\* the endpoint argument: its typeof and, for a string, its tokens
Endpoints ==
    { [type |-> "undefined", value |-> <<>>],
      [type |-> "number", value |-> <<>>],
      [type |-> "string", value |-> <<>>],
      [type |-> "string", value |-> <<"/users">>] }

\* !endpoint || typeof endpoint !== 'string' is false
ValidEndpoint(endpoint) == endpoint.type = "string" /\ endpoint.value # <<>>

MsgUnavailable ==
    <<"Service", "temporarily", "unavailable", ".", "Please", "try", "again", "later", ".">>
MsgAuthRequired == <<"Authentication", "required", ".", "Please", "log", "in", "again", ".">>
MsgServerError == <<"Server", "error", ".", "Please", "try", "again", "later", ".">>
MsgFailedToFetch == <<"Failed", "to", "fetch">>
MsgAborted == <<"The", "operation", "was", "aborted", ".">>

\* `Too many requests. Please try again ${retryAfter ? `after ${retryAfter} seconds` : 'later'}.`
MsgTooManyRequests(retryAfter) ==
    <<"Too", "many", "requests", ".", "Please", "try", "again">>
        \o (IF retryAfter # <<>> THEN <<"after">> \o retryAfter \o <<"seconds">>
                                 ELSE <<"later">>)
        \o <<".">>

\* `Request failed: ${response.status} ${response.statusText}`
MsgRequestFailed(status, statusText) ==
    <<"Request", "failed", ":", ToString(status)>> \o statusText

StatusText(status) ==
    CASE status = 200 -> <<"OK">>
      [] status = 400 -> <<"Bad", "Request">>
      [] status = 401 -> <<"Unauthorized">>
      [] status = 403 -> <<"Forbidden">>
      [] status = 404 -> <<"Not", "Found">>
      [] status = 409 -> <<"Conflict">>
      [] status = 418 -> <<"I'm", "a", "teapot">>
      [] status = 422 -> <<"Unprocessable", "Entity">>
      [] status = 429 -> <<"Too", "Many", "Requests">>
      [] status = 500 -> <<"Internal", "Server", "Error">>
      [] status = 503 -> <<"Service", "Unavailable">>
      [] OTHER -> <<>>

HttpResponse(status, message, retryAfter) ==
    [kind |-> "http", status |-> status, statusText |-> StatusText(status),
     message |-> message, retryAfter |-> retryAfter]

\* what `await fetch(url, config)` can settle with: a response (its status, the
\* message of its JSON body if any, its Retry-After header if any), a network
\* failure, or the abort of the timeout
ApiResponses ==
    { HttpResponse(s, <<>>, <<>>) :
          s \in {200, 400, 401, 403, 404, 409, 418, 422, 429, 500, 503} }
    \cup { HttpResponse(s, <<"Email", "already", "registered">>, <<>>) : s \in {400, 409, 422} }
    \cup { HttpResponse(429, <<>>, <<"30">>) }
    \cup { [kind |-> k, status |-> 0, statusText |-> <<>>, message |-> <<>>,
            retryAfter |-> <<>>] : k \in {"network", "abort"} }

\* response.ok
Ok(resp) == resp.status >= 200 /\ resp.status <= 299

\* the switch on response.status, lines 431-456
StatusError(resp) ==
    CASE resp.status = 400 -> Error("Error",
             OrElse(resp.message, <<"Invalid", "request", ".", "Please", "check",
                                    "your", "input", ".">>))
      [] resp.status = 401 -> Error("Error", MsgAuthRequired)
      [] resp.status = 403 ->
               Error("Error", <<"You", "do", "not", "have", "permission", "to",
                                "perform", "this", "action", ".">>)
      [] resp.status = 404 ->
               Error("Error", <<"The", "requested", "resource", "was", "not", "found", ".">>)
      [] resp.status = 409 -> Error("Error",
               OrElse(resp.message, <<"Conflict", ".", "The", "resource", "already",
                                      "exists", "or", "is", "in", "use", ".">>))
      [] resp.status = 422 -> Error("Error",
               OrElse(resp.message, <<"Validation", "failed", ".", "Please", "check",
                                      "your", "input", ".">>))
      [] resp.status = 429 -> Error("Error", MsgTooManyRequests(resp.retryAfter))
      [] resp.status = 500 -> Error("Error", MsgServerError)
      [] resp.status \in {502, 503, 504} -> Error("Error", MsgUnavailable)
      [] OTHER -> Error("Error", MsgRequestFailed(resp.status, resp.statusText))

\* what one attempt throws when fetch settles with resp (NoError: nothing)
AttemptError(resp) ==
    CASE resp.kind = "network" -> Error("TypeError", MsgFailedToFetch)
      [] resp.kind = "abort" -> Error("AbortError", MsgAborted)
      [] resp.kind = "http" /\ ~Ok(resp) -> StatusError(resp)
      [] OTHER -> NoError

\* a circuit that opens one failure late
isCircuitOpen_Late ==
    IF cbFailures > cbThreshold
    THEN now - ToNumber(cbLastFailure) < cbResetTimeout
    ELSE FALSE

isCircuitOpen ==
    IF cbFailures >= cbThreshold
    THEN now - ToNumber(cbLastFailure) < cbResetTimeout
    ELSE FALSE

isServerError(error) ==
    \/ Includes(error.message, <<"Server", "error">>)
    \/ Includes(error.message, <<"Service", "temporarily", "unavailable">>)
    \/ error.name = "AbortError"

\* a retry decision that lets authentication errors through
shouldNotRetry_AuthRetried(error) ==
    \/ Includes(error.message, <<"Invalid", "request">>)
    \/ Includes(error.message, <<"permission">>)
    \/ Includes(error.message, <<"not", "found">>)
    \/ Includes(error.message, <<"Validation", "failed">>)
    \/ Includes(error.message, <<"No", "internet", "connection">>)

shouldNotRetry(error) ==
    \/ Includes(error.message, <<"Invalid", "request">>)
    \/ Includes(error.message, <<"Authentication", "required">>)
    \/ Includes(error.message, <<"permission">>)
    \/ Includes(error.message, <<"not", "found">>)
    \/ Includes(error.message, <<"Validation", "failed">>)
    \/ Includes(error.message, <<"No", "internet", "connection">>)

\* localStorage.removeItem('token'); localStorage.removeItem('tokenExpiry')
handleAuthError(storage) ==
    [storage EXCEPT !["token"] = <<>>, !["tokenExpiry"] = <<>>]

\* a reset that forgets one failure instead of all of them
ResetCircuitBreaker_Decrement ==
    /\ cbFailures' = IF cbFailures > 0 THEN cbFailures - 1 ELSE 0
    /\ cbLastFailure' = Null

\* this.circuitBreaker.failures = 0; this.circuitBreaker.lastFailure = null
ResetCircuitBreaker ==
    /\ cbFailures' = 0
    /\ cbLastFailure' = Null

\* a loop that runs one attempt too many
LoopContinues_OneMore(k) == k <= maxRetries

\* for (let attempt = 1; attempt <= this.maxRetries; attempt++): after attempt k
\* failed without a break, is there an attempt k + 1
LoopContinues(k) == k + 1 <= maxRetries

\* the call's promise rejects with err
Throw(c, err) ==
    /\ apiPc' = [apiPc EXCEPT ![c] = "done"]
    /\ apiOutcome' = [apiOutcome EXCEPT ![c] = "rejected"]
    /\ apiThrown' = [apiThrown EXCEPT ![c] = err]

\* the catch block of attempt k, lines 468-495, and the throw of line 498
CatchBlock(c, k, err) ==
    /\ apiAttempt' = [apiAttempt EXCEPT ![c] = k]
    /\ apiLastError' = [apiLastError EXCEPT ![c] = err]
    /\ IF isServerError(err)
       THEN /\ cbFailures < MaxFailures
            /\ cbFailures' = cbFailures + 1
            /\ cbLastFailure' = now
       ELSE UNCHANGED <<cbFailures, cbLastFailure>>
    /\ IF shouldNotRetry(err) \/ ~LoopContinues(k)
       THEN Throw(c, apiLastError'[c])
       ELSE /\ apiPc' = [apiPc EXCEPT ![c] = "waiting"]
            /\ UNCHANGED <<apiOutcome, apiThrown>>

\* attempt k up to its first await, lines 398-424: offline, it throws into the
\* catch block; online, it issues the fetch
BeginAttempt(c, k, online) ==
    IF ~online
    THEN /\ CatchBlock(c, k,
             Error("Error", <<"No", "internet", "connection", ".", "Please", "check",
                              "your", "network", "and", "try", "again", ".">>))
         /\ UNCHANGED <<apiFetches, apiLastStatus, apiLogouts, localStorage>>
    ELSE /\ apiPc' = [apiPc EXCEPT ![c] = "fetching"]
         /\ apiAttempt' = [apiAttempt EXCEPT ![c] = k]
         /\ apiFetches' = [apiFetches EXCEPT ![c] = @ + 1]
         /\ UNCHANGED <<apiLastError, apiLastStatus, apiOutcome, apiThrown, apiLogouts,
                        cbFailures, cbLastFailure, localStorage>>

\* request(endpoint, options) up to its first await, lines 383-424
Request(c, endpoint, online) ==
    /\ apiPc[c] = "idle"
    /\ IF isCircuitOpen
       THEN /\ Throw(c, Error("Error", MsgUnavailable))
            /\ UNCHANGED <<apiAttempt, apiFetches, apiLastError, apiLastStatus, apiLogouts,
                           cbFailures, cbLastFailure, localStorage>>
       ELSE IF ~ValidEndpoint(endpoint)
       THEN /\ Throw(c, Error("Error", <<"Valid", "endpoint", "is", "required">>))
            /\ UNCHANGED <<apiAttempt, apiFetches, apiLastError, apiLastStatus, apiLogouts,
                           cbFailures, cbLastFailure, localStorage>>
       ELSE BeginAttempt(c, 1, online)
    /\ UNCHANGED <<now, maxRetries, cbThreshold, cbResetTimeout, notApiVars>>

\* the fetch of the current attempt settles with resp; the body is parsed, and
\* the attempt returns the data or throws into the catch block, lines 424-495
FetchSettles(c, resp) ==
    /\ apiPc[c] = "fetching"
    /\ apiLastStatus' = [apiLastStatus EXCEPT ![c] = resp.status]
    /\ IF AttemptError(resp) = NoError
       THEN /\ ResetCircuitBreaker
            /\ apiPc' = [apiPc EXCEPT ![c] = "done"]
            /\ apiOutcome' = [apiOutcome EXCEPT ![c] = "resolved"]
            /\ UNCHANGED <<apiAttempt, apiLastError, apiThrown, apiLogouts, localStorage>>
       ELSE /\ IF resp.status = 401
               THEN /\ localStorage' = handleAuthError(localStorage)
                    /\ apiLogouts' = [apiLogouts EXCEPT ![c] = @ + 1]
               ELSE UNCHANGED <<localStorage, apiLogouts>>
            /\ CatchBlock(c, apiAttempt[c], AttemptError(resp))
    /\ UNCHANGED <<now, apiFetches, maxRetries, cbThreshold, cbResetTimeout, notApiVars>>

\* the delay before the next attempt is over, line 493, and attempt k + 1 begins
RetryDelayElapses(c, online) ==
    /\ apiPc[c] = "waiting"
    /\ BeginAttempt(c, apiAttempt[c] + 1, online)
    /\ UNCHANGED <<now, maxRetries, cbThreshold, cbResetTimeout, notApiVars>>

\* the caller has taken the call's result; the slot is free for another call
RequestReturns(c) ==
    /\ apiPc[c] = "done"
    /\ apiPc' = [apiPc EXCEPT ![c] = "idle"]
    /\ apiAttempt' = [apiAttempt EXCEPT ![c] = 0]
    /\ apiFetches' = [apiFetches EXCEPT ![c] = 0]
    /\ apiLastError' = [apiLastError EXCEPT ![c] = NoError]
    /\ apiLastStatus' = [apiLastStatus EXCEPT ![c] = 0]
    /\ apiOutcome' = [apiOutcome EXCEPT ![c] = "pending"]
    /\ apiThrown' = [apiThrown EXCEPT ![c] = NoError]
    /\ apiLogouts' = [apiLogouts EXCEPT ![c] = 0]
    /\ UNCHANGED <<envVars, clientVars, notApiVars>>

\* time passes
Tick ==
    /\ now < MaxTime
    /\ now' = now + 1
    /\ UNCHANGED <<localStorage, apiVars, notApiVars>>

\* new ApiClient(baseURL, options), lines 370-381, no call in flight
ApiFresh(options) ==
    /\ maxRetries = OrDefault(options.maxRetries, DefaultMaxRetries)
    /\ cbThreshold = OrDefault(options.circuitBreakerThreshold, DefaultThreshold)
    /\ cbResetTimeout = OrDefault(options.circuitBreakerReset, DefaultResetTimeout)
    /\ cbFailures = 0
    /\ cbLastFailure = Null
    /\ apiPc = [c \in Calls |-> "idle"]
    /\ apiAttempt = [c \in Calls |-> 0]
    /\ apiFetches = [c \in Calls |-> 0]
    /\ apiLastError = [c \in Calls |-> NoError]
    /\ apiLastStatus = [c \in Calls |-> 0]
    /\ apiOutcome = [c \in Calls |-> "pending"]
    /\ apiThrown = [c \in Calls |-> NoError]
    /\ apiLogouts = [c \in Calls |-> 0]

----------------------------------------------------------------------------
\* loginUserSecure  (fix-suggestions.js, lines 223-355)

\* the characters of an email argument: a letter, the at sign, the dot, a space
EmailAlphabet == {"a", "@", ".", " "}

\* the email argument: undefined, a number, or a string of characters
Emails ==
    { [type |-> "undefined", chars |-> <<>>], [type |-> "number", chars |-> <<>>] }
    \cup { [type |-> "string", chars |-> w] :
              w \in UNION { [1..n -> EmailAlphabet] : n \in 0..MaxEmailLen } }

\* the password argument: undefined, a number, or a string of a given length
Passwords ==
    { [type |-> "undefined", length |-> 0], [type |-> "number", length |-> 0] }
    \cup { [type |-> "string", length |-> n] : n \in 0..MaxPasswordLen }

MinPasswordLength == 8
LoginMaxRetries == 3

\* [^\s@]
NotSpaceNorAt(ch) == ch \notin {" ", "@"}

\* /^[^\s@]+@[^\s@]+\.[^\s@]+$/.test(s)
emailRegexTest(s) ==
    \E i \in 1..Len(s), j \in 1..Len(s) :
        /\ 1 < i /\ i + 1 < j /\ j < Len(s)
        /\ s[i] = "@" /\ s[j] = "."
        /\ \A k \in 1..(i - 1) : NotSpaceNorAt(s[k])
        /\ \A k \in (i + 1)..(j - 1) : NotSpaceNorAt(s[k])
        /\ \A k \in (j + 1)..Len(s) : NotSpaceNorAt(s[k])

MsgEmailRequired == <<"Valid", "email", "address", "is", "required">>
MsgPasswordLength ==
    <<"Password", "must", "be", "at", "least", "8", "characters", "long">>
MsgEmailInvalid == <<"Please", "enter", "a", "valid", "email", "address">>
MsgLoginServerError == <<"Server", "error", ".", "Please", "try", "again", "later">>
MsgJsonSyntax == <<"Unexpected", "token", "<", "in", "JSON", "at", "position", "0">>

\* `Login failed: ${response.statusText}`
MsgLoginFailed(statusText) == <<"Login", "failed", ":">> \o statusText

\* a validation that accepts passwords of 6 characters
loginValidationError_Min6(email, password) ==
    IF email.type # "string" \/ email.chars = <<>>
    THEN Error("Error", MsgEmailRequired)
    ELSE IF password.type # "string" \/ password.length = 0 \/ password.length < 6
    THEN Error("Error", MsgPasswordLength)
    ELSE IF ~emailRegexTest(email.chars)
    THEN Error("Error", MsgEmailInvalid)
    ELSE NoError

\* the input validation, lines 224-236 (NoError: the inputs pass)
loginValidationError(email, password) ==
    IF email.type # "string" \/ email.chars = <<>>
    THEN Error("Error", MsgEmailRequired)
    ELSE IF password.type # "string" \/ password.length = 0
            \/ password.length < MinPasswordLength
    THEN Error("Error", MsgPasswordLength)
    ELSE IF ~emailRegexTest(email.chars)
    THEN Error("Error", MsgEmailInvalid)
    ELSE NoError

LoginFailure(kind, status) ==
    [kind |-> kind, status |-> status, statusText |-> StatusText(status),
     contentType |-> <<>>, parses |-> FALSE, isObject |-> FALSE,
     token |-> <<>>, user |-> <<>>, expiresAt |-> 0]

LoginBody(contentType, parses, isObject, token, user, expiresAt) ==
    [kind |-> "http", status |-> 200, statusText |-> StatusText(200),
     contentType |-> contentType, parses |-> parses, isObject |-> isObject,
     token |-> token, user |-> user, expiresAt |-> expiresAt]

JsonContentType == <<"application/json", ";", "charset=utf-8">>

\* what `await fetch('/api/login', ...)` can settle with: a network failure, the
\* abort of the 10 s timeout, an error status, or a 200 with a content type and
\* a body (unparsable, null, or an object with or without a token of one to
\* three parts, a user and an expiry)
LoginResponses ==
    { LoginFailure("network", 0), LoginFailure("abort", 0) }
    \cup { LoginFailure("http", s) : s \in {400, 401, 403, 404, 429, 500, 503} }
    \cup { LoginBody(ct, TRUE, TRUE, <<"h", "p", "s">>, <<"u1">>, 0) :
              ct \in {<<>>, <<"text/html">>} }
    \cup { LoginBody(JsonContentType, FALSE, FALSE, <<>>, <<>>, 0),
           LoginBody(JsonContentType, TRUE, FALSE, <<>>, <<>>, 0) }
    \cup { LoginBody(JsonContentType, TRUE, TRUE, t, u, e) :
              t \in {<<>>, <<"h", "p">>, <<"h", "p", "s">>},
              u \in {<<>>, <<"u1">>}, e \in {0, 5} }

\* what one attempt throws when fetch settles with resp, lines 248-298
\* (NoError: every check passes)
loginAttemptError(resp) ==
    CASE resp.kind = "network" -> Error("TypeError", MsgFailedToFetch)
      [] resp.kind = "abort" -> Error("AbortError", MsgAborted)
      [] OTHER ->
           IF ~Ok(resp)
           THEN IF resp.status = 401 THEN Error("Error", <<"Invalid", "email", "or", "password">>)
                ELSE IF resp.status = 429 THEN
                         Error("Error", <<"Too", "many", "login", "attempts", ".",
                                          "Please", "try", "again", "later">>)
                ELSE IF resp.status >= 500 THEN Error("Error", MsgLoginServerError)
                ELSE Error("Error", MsgLoginFailed(resp.statusText))
           ELSE IF resp.contentType = <<>>
                   \/ ~Includes(resp.contentType, <<"application/json">>)
           THEN Error("Error", <<"Invalid", "response", "format", "from", "server">>)
           ELSE IF ~resp.parses THEN Error("SyntaxError", MsgJsonSyntax)
           ELSE IF ~resp.isObject THEN Error("Error", <<"Invalid", "response", "data">>)
           ELSE IF resp.token = <<>> THEN
                    Error("Error", <<"Authentication", "token", "not", "received">>)
           ELSE IF resp.user = <<>> THEN
                    Error("Error", <<"User", "information", "not", "received">>)
           ELSE IF Len(resp.token) # 3 THEN
                    Error("Error", <<"Invalid", "authentication", "token", "format">>)
           ELSE NoError

\* the two breaks of the catch block, lines 332-343
loginShouldBreak(error) ==
    \/ Includes(error.message, <<"Invalid", "email", "or", "password">>)
    \/ Includes(error.message, <<"email">>)
    \/ Includes(error.message, <<"password">>)
    \/ (error.name = "TypeError" /\ Includes(error.message, <<"format">>))
    \/ Includes(error.message, <<"Too", "many", "login", "attempts">>)

\* a loop that runs one attempt too many
loginLoopContinues_OneMore(k) == k <= LoginMaxRetries

\* for (let attempt = 1; attempt <= maxRetries; attempt++): after attempt k,
\* is there an attempt k + 1
loginLoopContinues(k) == k + 1 <= LoginMaxRetries

\* if (attempt < maxRetries): the backoff delay after attempt k
loginWaitsAfter(k) == k < LoginMaxRetries

\* 24 * 60 * 60 * 1000
DayMs == 24 * 60 * 60 * 1000

\* localStorage.setItem('token', ...); localStorage.setItem('tokenExpiry', ...),
\* lines 301-307, where setItem number failAt throws (0: none does)
storeToken(storage, resp, failAt) ==
    CASE failAt = 1 -> storage
      [] failAt = 2 -> [storage EXCEPT !["token"] = <<resp.token>>]
      [] OTHER -> [storage EXCEPT !["token"] = <<resp.token>>,
                                  !["tokenExpiry"] = <<OrDefault(resp.expiresAt, now + DayMs)>>]

\* throw new Error(lastError?.message || 'Login failed after multiple attempts')
loginThrow(error) ==
    /\ loginPc' = "done"
    /\ loginOutcome' = "thrown"
    /\ loginThrown' = Error("Error",
             OrElse(error.message, <<"Login", "failed", "after", "multiple", "attempts">>))

\* attempt k issues its fetch, lines 243-256
loginBeginAttempt(k) ==
    /\ loginPc' = "fetching"
    /\ loginAttempt' = k
    /\ loginFetches' = loginFetches + 1
    /\ UNCHANGED <<loginOutcome, loginThrown>>

\* the end of iteration k of the loop: attempt k + 1, or the throw of line 354
loginNextIteration(k) ==
    IF loginLoopContinues(k)
    THEN loginBeginAttempt(k + 1)
    ELSE loginThrow(loginLastError') /\ UNCHANGED <<loginAttempt, loginFetches>>

\* loginUserSecure(email, password) up to its first await, lines 223-256
Login(email, password) ==
    /\ loginPc = "idle"
    /\ loginEmail' = email
    /\ loginPassword' = password
    /\ IF loginValidationError(email, password) # NoError
       THEN /\ loginPc' = "done"
            /\ loginOutcome' = "thrown"
            /\ loginThrown' = loginValidationError(email, password)
            /\ UNCHANGED <<loginAttempt, loginFetches>>
       ELSE loginBeginAttempt(1)
    /\ UNCHANGED <<loginWaits, loginLastError, loginLastStatus, loginResult,
                   envVars, notLoginVars>>

\* the fetch of the current attempt settles with resp: the attempt returns the
\* login, or throws into the catch block, lines 248-350; setItem number failAt
\* throws
LoginFetchSettles(resp, failAt) ==
    /\ loginPc = "fetching"
    /\ loginLastStatus' = resp.status
    /\ IF loginAttemptError(resp) = NoError
       THEN /\ localStorage' = storeToken(localStorage, resp, failAt)
            /\ loginPc' = "done"
            /\ loginOutcome' = "returned"
            /\ loginResult' = [success |-> TRUE, user |-> resp.user, token |-> resp.token]
            /\ UNCHANGED <<loginAttempt, loginFetches, loginWaits, loginLastError,
                           loginThrown>>
       ELSE /\ failAt = 0
            /\ loginLastError' = loginAttemptError(resp)
            /\ IF loginShouldBreak(loginLastError')
               THEN /\ loginThrow(loginLastError')
                    /\ UNCHANGED <<loginAttempt, loginFetches, loginWaits>>
               ELSE IF loginWaitsAfter(loginAttempt)
               THEN /\ loginPc' = "waiting"
                    /\ loginWaits' = loginWaits + 1
                    /\ UNCHANGED <<loginAttempt, loginFetches, loginOutcome, loginThrown>>
               ELSE /\ loginNextIteration(loginAttempt)
                    /\ UNCHANGED loginWaits
            /\ UNCHANGED <<localStorage, loginResult>>
    /\ UNCHANGED <<now, loginEmail, loginPassword, notLoginVars>>

\* the backoff delay is over, line 348, and the loop goes on
LoginDelayElapses ==
    /\ loginPc = "waiting"
    /\ loginNextIteration(loginAttempt)
    /\ UNCHANGED <<loginEmail, loginPassword, loginWaits, loginLastError, loginLastStatus,
                   loginResult, envVars, notLoginVars>>

NoResult == [success |-> FALSE, user |-> <<>>, token |-> <<>>]

\* no call of loginUserSecure is in progress
LoginFresh ==
    /\ loginPc = "idle"
    /\ loginEmail = [type |-> "undefined", chars |-> <<>>]
    /\ loginPassword = [type |-> "undefined", length |-> 0]
    /\ loginAttempt = 0
    /\ loginFetches = 0
    /\ loginWaits = 0
    /\ loginLastError = NoError
    /\ loginLastStatus = 0
    /\ loginOutcome = "pending"
    /\ loginThrown = NoError
    /\ loginResult = NoResult

\* the caller has taken the call's result
LoginReturns ==
    /\ loginPc = "done"
    /\ loginPc' = "idle"
    /\ loginEmail' = [type |-> "undefined", chars |-> <<>>]
    /\ loginPassword' = [type |-> "undefined", length |-> 0]
    /\ loginAttempt' = 0
    /\ loginFetches' = 0
    /\ loginWaits' = 0
    /\ loginLastError' = NoError
    /\ loginLastStatus' = 0
    /\ loginOutcome' = "pending"
    /\ loginThrown' = NoError
    /\ loginResult' = NoResult
    /\ UNCHANGED <<envVars, notLoginVars>>

\* a call of loginUserSecure with any arguments
LoginCall ==
    /\ loginPc = "idle"
    /\ \E email \in Emails, password \in Passwords : Login(email, password)

----------------------------------------------------------------------------
\* uploadFileSecure and cleanupFailedUpload  (fix-suggestions.js, lines 583-746)

\* 10 * 1024 * 1024
DefaultMaxSize == 10 * 1024 * 1024

DefaultAllowedTypes == {"image/jpeg", "image/png", "image/gif", "application/pdf"}

\* the file argument: null, an object that is no File, or a File of a type and size
Files ==
    { [kind |-> k, type |-> "", size |-> 0] : k \in {"null", "object"} }
    \cup { [kind |-> "File", type |-> t, size |-> z] :
              t \in {"image/png", "text/html"},
              z \in {0, 1000, 1001, DefaultMaxSize, DefaultMaxSize + 1} }

\* the options argument: allowedTypes (given or not), maxSize (0: not given) and
\* onAbort (not given, given, or given and throwing when called)
UploadOptions ==
    [ allowedTypesGiven : BOOLEAN, allowedTypes : {{"text/html"}},
      maxSize : {0, 1000}, onAbort : {"none", "given", "throws"} ]

NoFile == [kind |-> "null", type |-> "", size |-> 0]
NoOptions ==
    [allowedTypesGiven |-> FALSE, allowedTypes |-> {"text/html"}, maxSize |-> 0,
     onAbort |-> "none"]

\* options.allowedTypes || [...]
allowedTypes(options) ==
    IF options.allowedTypesGiven THEN options.allowedTypes ELSE DefaultAllowedTypes

\* options.maxSize || 10 * 1024 * 1024
maxSize(options) == OrDefault(options.maxSize, DefaultMaxSize)

\* Math.round(maxSize / (1024 * 1024))
maxSizeMB(options) == (2 * maxSize(options) + 1024 * 1024) \div (2 * 1024 * 1024)

MsgFileType(type) == <<"File", "type", type, "is", "not", "allowed">>
MsgFileSize(mb) ==
    <<"File", "size", "exceeds", "maximum", "allowed", "size", "of", ToString(mb), "MB">>
MsgInitFailed(statusText) == <<"Upload", "initialization", "failed", ":">> \o statusText
MsgUploadFailed(status) == <<"Upload", "failed", ":", ToString(status)>> \o StatusText(status)

\* a validation that forgets the file type
uploadValidationError_NoTypeCheck(file, options) ==
    IF file.kind # "File"
    THEN Error("Error", <<"A", "valid", "file", "is", "required">>)
    ELSE IF file.size > maxSize(options)
    THEN Error("Error", MsgFileSize(maxSizeMB(options)))
    ELSE NoError

\* the input validation, lines 584-600 (NoError: the file passes)
uploadValidationError(file, options) ==
    IF file.kind # "File"
    THEN Error("Error", <<"A", "valid", "file", "is", "required">>)
    ELSE IF file.type \notin allowedTypes(options)
    THEN Error("Error", MsgFileType(file.type))
    ELSE IF file.size > maxSize(options)
    THEN Error("Error", MsgFileSize(maxSizeMB(options)))
    ELSE NoError

InitResponse(kind, status, parses, url, id) ==
    [kind |-> kind, status |-> status, statusText |-> StatusText(status),
     parses |-> parses, uploadUrl |-> url, uploadId |-> id]

\* what the init request can settle with: a network failure, an error status, a
\* 200 whose body does not parse, or a 200 with uploadUrl (missing, a URL, or
\* a string that is no URL) and uploadId (missing or not)
InitResponses ==
    { InitResponse("network", 0, FALSE, <<>>, <<>>),
      InitResponse("http", 500, FALSE, <<>>, <<>>),
      InitResponse("http", 200, FALSE, <<>>, <<>>) }
    \cup { InitResponse("http", 200, TRUE, url, id) :
              url \in {<<>>, <<"https://cdn/put">>, <<"http://">>}, id \in {<<>>, <<"u1">>} }

\* what the try block throws before uploadUrl and uploadId are assigned, lines
\* 620-637 (NoError: initData was read)
initError(resp) ==
    CASE resp.kind = "network" -> Error("TypeError", MsgFailedToFetch)
      [] ~Ok(resp) -> Error("Error", MsgInitFailed(resp.statusText))
      [] ~resp.parses -> Error("SyntaxError", MsgJsonSyntax)
      [] OTHER -> NoError

\* xhr.open('POST', uploadUrl) throws a SyntaxError when uploadUrl is no URL
openThrows(url) == url = <<"http://">>

\* the events that end an XMLHttpRequest: load with a status and a body (its
\* JSON parses or not, it has fileId and url or not), error, timeout, abort
XhrEvents ==
    { [type |-> "load", status |-> st, parses |-> ps, complete |-> cp] :
          st \in {200, 500}, ps \in BOOLEAN, cp \in BOOLEAN }
    \cup { [type |-> t, status |-> 0, parses |-> FALSE, complete |-> FALSE] :
              t \in {"error", "timeout", "abort"} }

\* what the handler of the event rejects with, lines 660-703 (NoError: the load
\* handler resolves)
xhrError(ev) ==
    CASE ev.type = "error" ->
             Error("Error", <<"Upload", "failed", "due", "to", "network", "error">>)
      [] ev.type = "timeout" -> Error("Error", <<"Upload", "timed", "out">>)
      [] ev.type = "abort" -> Error("Error", <<"Upload", "was", "cancelled">>)
      [] OTHER ->
           IF ev.status >= 200 /\ ev.status < 300
           THEN IF ~ev.parses THEN Error("SyntaxError", MsgJsonSyntax)
                ELSE IF ~ev.complete THEN Error("Error", <<"Invalid", "upload", "response">>)
                ELSE NoError
           ELSE Error("Error", MsgUploadFailed(ev.status))

\* the promise of the call settles; a promise that is settled stays as it is
upSettle(outcome, err) ==
    IF upPc = "uploading"
    THEN /\ upPc' = "done"
         /\ upOutcome' = outcome
         /\ upThrown' = err
    ELSE UNCHANGED <<upPc, upOutcome, upThrown>>

\* the call rejects with err, from the async function itself
upReject(err) ==
    /\ upPc' = "done"
    /\ upOutcome' = "rejected"
    /\ upThrown' = err

\* the catch block of lines 724-731 up to its await: with an uploadId the cleanup
\* request is issued and awaited, without one the error is rethrown
upCatch(err) ==
    IF uploadId' # <<>>
    THEN /\ upPc' = "cleanup"
         /\ upPending' = err
         /\ upDeletes' = upDeletes + 1
         /\ UNCHANGED <<upOutcome, upThrown>>
    ELSE /\ upReject(err)
         /\ UNCHANGED <<upPending, upDeletes>>

\* the promise executor, lines 646-722: the listeners are added, the request is
\* opened and sent, and the abort function is handed to options.onAbort. What the
\* executor throws rejects the promise that the function returns without
\* awaiting it, so that the catch block of line 724 does not run.
upExecutor ==
    IF openThrows(uploadUrl')
    THEN /\ upReject(Error("SyntaxError", <<"Invalid", "URL">>))
         /\ UNCHANGED <<upXhr, upSends>>
    ELSE /\ upXhr' = "sent"
         /\ upSends' = upSends + 1
         /\ IF upOptions.onAbort = "throws"
            THEN upReject(Error("Error", <<"onAbort", "failed">>))
            ELSE /\ upPc' = "uploading"
                 /\ UNCHANGED <<upOutcome, upThrown>>

\* uploadFileSecure(file, options) up to its first await, lines 583-631
Upload(file, options) ==
    /\ upPc = "idle"
    /\ upFile' = file
    /\ upOptions' = options
    /\ IF uploadValidationError(file, options) # NoError
       THEN /\ upReject(uploadValidationError(file, options))
            /\ UNCHANGED upInits
       ELSE /\ upPc' = "init"
            /\ upInits' = upInits + 1
            /\ UNCHANGED <<upOutcome, upThrown>>
    /\ UNCHANGED <<uploadUrl, uploadId, upXhr, upPending, upSends, upDeletes,
                   upDeletesDone, notUploadVars>>

\* the init request settles with resp and the function runs on to its next
\* await or to its end, lines 633-731
InitSettles(resp) ==
    /\ upPc = "init"
    /\ IF initError(resp) # NoError
       THEN /\ UNCHANGED <<uploadUrl, uploadId>>
            /\ upCatch(initError(resp))
            /\ UNCHANGED <<upXhr, upSends>>
       ELSE /\ uploadUrl' = resp.uploadUrl
            /\ uploadId' = resp.uploadId
            /\ IF resp.uploadUrl = <<>> \/ resp.uploadId = <<>>
               THEN /\ upCatch(Error("Error",
                                   <<"Invalid", "upload", "initialization", "response">>))
                    /\ UNCHANGED <<upXhr, upSends>>
               ELSE /\ upExecutor
                    /\ UNCHANGED <<upPending, upDeletes>>
    /\ UNCHANGED <<upFile, upOptions, upInits, upDeletesDone, notUploadVars>>

\* the request ends with event ev and its listener runs up to its await or to its
\* end, lines 660-703; only the abort function of options.onAbort aborts it
XhrEvent(ev) ==
    /\ upXhr = "sent"
    /\ ev.type = "abort" => upOptions.onAbort = "given"
    /\ IF xhrError(ev) = NoError
       THEN /\ upSettle("resolved", NoError)
            /\ upXhr' = "done"
            /\ UNCHANGED <<upPending, upDeletes>>
       ELSE /\ upXhr' = "cleanup"
            /\ upPending' = xhrError(ev)
            /\ upDeletes' = upDeletes + 1
            /\ UNCHANGED <<upPc, upOutcome, upThrown>>
    /\ UNCHANGED <<upFile, upOptions, uploadUrl, uploadId, upInits, upSends,
                   upDeletesDone, notUploadVars>>

\* the DELETE of cleanupFailedUpload settles, whether it worked or not (lines
\* 736-745), and the code that awaited it rejects with the error it held
CleanupSettles ==
    /\ upPc = "cleanup" \/ upXhr = "cleanup"
    /\ upDeletesDone' = upDeletesDone + 1
    /\ IF upPc = "cleanup"
       THEN /\ upReject(upPending)
            /\ UNCHANGED upXhr
       ELSE /\ upSettle("rejected", upPending)
            /\ upXhr' = "done"
    /\ upPending' = NoError
    /\ UNCHANGED <<upFile, upOptions, uploadUrl, uploadId, upInits, upSends, upDeletes,
                   notUploadVars>>

\* no call of uploadFileSecure is in progress
UploadFresh ==
    /\ upPc = "idle"
    /\ upFile = NoFile
    /\ upOptions = NoOptions
    /\ uploadUrl = <<>>
    /\ uploadId = <<>>
    /\ upXhr = "unsent"
    /\ upPending = NoError
    /\ upOutcome = "pending"
    /\ upThrown = NoError
    /\ upInits = 0
    /\ upSends = 0
    /\ upDeletes = 0
    /\ upDeletesDone = 0

\* the caller has taken the call's result and the request, if one was sent, is over
UploadReturns ==
    /\ upPc = "done"
    /\ upXhr \in {"unsent", "done"}
    /\ upPc' = "idle"
    /\ upFile' = NoFile
    /\ upOptions' = NoOptions
    /\ uploadUrl' = <<>>
    /\ uploadId' = <<>>
    /\ upXhr' = "unsent"
    /\ upPending' = NoError
    /\ upOutcome' = "pending"
    /\ upThrown' = NoError
    /\ upInits' = 0
    /\ upSends' = 0
    /\ upDeletes' = 0
    /\ upDeletesDone' = 0
    /\ UNCHANGED notUploadVars

\* a call of uploadFileSecure with any arguments
UploadCall ==
    /\ upPc = "idle"
    /\ \E file \in Files, options \in UploadOptions : Upload(file, options)

----------------------------------------------------------------------------
\* DatabaseService  (fix-suggestions.js, lines 759-971)
\*
\* One instance and one caller: calls of executeQuery and transaction follow
\* one another.  The driver (pool and connections) is the environment: each of
\* its promises resolves or rejects with one of DriverErrors.

\* this.retryAttempts
retryAttempts == 3

\* an Error as the driver or `new Error(message)` makes it (code "none": no code)
DbError(name, code, message) == [name |-> name, code |-> code, message |-> message]

NoDbError == DbError("none", "none", <<>>)

\* what the promises of the driver reject with
DriverErrors ==
    { DbError("Error", "ER_LOCK_DEADLOCK", <<"Deadlock", "found">>),
      DbError("Error", "none", <<"deadlock", "detected">>),
      DbError("Error", "ECONNRESET", <<"read", "ECONNRESET">>),
      DbError("Error", "ECONNREFUSED", <<"connect", "ECONNREFUSED">>),
      DbError("Error", "ETIMEDOUT", <<"connect", "ETIMEDOUT">>),
      DbError("Error", "ER_DUP_ENTRY", <<"Duplicate", "entry", "'", "a", "'">>),
      DbError("Error", "ER_DUP_ENTRY", <<"Duplicate", "entry", "'", "connection", "'">>),
      DbError("Error", "ER_NO_REFERENCED_ROW", <<"foreign", "key", "constraint", "fails">>),
      DbError("Error", "ER_LOCK_WAIT_TIMEOUT", <<"Lock", "wait", "timeout", "exceeded">>),
      DbError("Error", "ER_PARSE_ERROR", <<"syntax", "error">>) }

\* the rejection of the timer of lines 792-794
QueryTimeout == DbError("Error", "none", <<"Query", "timeout">>)

\* the argument query of executeQuery: a string or something else
Queries ==
    { [type |-> "string", text |-> <<"SELECT">>],
      [type |-> "string", text |-> <<>>],
      [type |-> "number", text |-> <<>>] }

\* one element of the argument of transaction; "" and "undefined": missing
Operations ==
    { [query |-> "q1", params |-> "array"],
      [query |-> "q2", params |-> "array"],
      [query |-> "", params |-> "array"],
      [query |-> "q1", params |-> "undefined"] }

\* the argument of transaction: an array of operations, or not an array
OperationArrays ==
    { [isArray |-> TRUE, items |-> ops] :
        ops \in UNION { [1..n -> Operations] : n \in 0..MaxOps } }
    \cup { [isArray |-> FALSE, items |-> <<>>] }

\* the rows connection.execute resolves with for a query
Rows(query) == <<"rows", query>>

isDeadlockError(error) ==
    \/ error.code = "ER_LOCK_DEADLOCK"
    \/ Includes(error.message, <<"deadlock">>)

isConnectionError(error) ==
    \/ error.code = "ECONNRESET"
    \/ error.code = "ECONNREFUSED"
    \/ error.code = "ETIMEDOUT"
    \/ Includes(error.message, <<"connection">>)

isConstraintError(error) ==
    \/ error.code = "ER_DUP_ENTRY"
    \/ error.code = "ER_NO_REFERENCED_ROW"
    \/ Includes(error.message, <<"constraint">>)

parseConstraintError(error) ==
    IF error.code = "ER_DUP_ENTRY"
    THEN <<"Duplicate", "entry", "-", "record", "already", "exists">>
    ELSE IF error.code = "ER_NO_REFERENCED_ROW"
    THEN <<"Referenced", "record", "does", "not", "exist">>
    ELSE <<"Data", "constraint", "violation">>

MsgDeadlockAfterRetries ==
    <<"Database", "deadlock", "-", "operation", "failed", "after", "retries">>

MsgConnectionAfterRetries ==
    <<"Database", "connection", "failed", "after", "retries">>

\* the outcomes of getConnection(): a connection of the pool, or an error
getConnection(pool) ==
    IF pool = "null"
    THEN { [ok |-> FALSE,
            error |-> DbError("Error", "none",
                              <<"Database", "connection", "pool", "not", "initialized">>)] }
    ELSE { [ok |-> TRUE, error |-> NoDbError] }
         \cup { [ok |-> FALSE, error |-> e] : e \in DriverErrors }

\* the outcomes of resetConnection(): the pool is replaced, or the error of
\* pool.end() or of createConnectionPool() is thrown again.  The class calls
\* this.createConnectionPool and does not define it: the call is a TypeError
\* unless a subclass supplies the method.
resetConnection(pool, factory) ==
    (IF pool # "null" THEN { [ok |-> FALSE, error |-> e] : e \in DriverErrors } ELSE {})
    \cup
    (IF factory = "undefined"
     THEN { [ok |-> FALSE,
             error |-> DbError("TypeError", "none",
                               <<"this.createConnectionPool", "is", "not", "a", "function">>)] }
     ELSE { [ok |-> TRUE, error |-> NoDbError] }
          \cup { [ok |-> FALSE, error |-> e] : e \in DriverErrors })

\* how a try statement completes once its finally block has run
Completion(type, value, error) == [type |-> type, value |-> value, error |-> error]

\* attempt++
dbNextAttempt(attempt) == attempt + 1

\* a variant that allows one attempt more
dbAttemptsLeft_OneMore(attempt) == attempt <= retryAttempts

\* attempt < this.retryAttempts, the test of the loop and of both retries
dbAttemptsLeft(attempt) == attempt < retryAttempts

\* connection = await ...: the local now refers to a connection not seen before
dbObtain ==
    /\ connection' = Len(dbReleases) + 1
    /\ dbReleases' = Append(dbReleases, 0)

\* if (connection) { await connection.release() }: a rejection of release is
\* caught and logged
dbRelease ==
    dbReleases' = IF connection # 0
                  THEN [dbReleases EXCEPT ![connection] = @ + 1]
                  ELSE dbReleases

\* the call settles
dbSettle(completion) ==
    /\ dbPc' = "done"
    /\ dbOutcome' = IF completion.type = "throw" THEN "rejected" ELSE "resolved"
    /\ dbResult' = completion.value
    /\ dbThrown' = completion.error

executeQuery(query, params) ==
    /\ dbPc = "idle"
    /\ dbMethod' = "executeQuery"
    /\ dbQuery' = query
    /\ IF ~(query.type = "string" /\ query.text # <<>>)
       THEN dbSettle(Completion("throw", <<>>,
                DbError("Error", "none", <<"Valid", "SQL", "query", "is", "required">>)))
       ELSE IF params = "object"
       THEN dbSettle(Completion("throw", <<>>,
                DbError("Error", "none", <<"Query", "parameters", "must", "be", "an", "array">>)))
       ELSE IF dbAttemptsLeft(dbAttempt)
       THEN /\ dbPc' = "try"
            /\ UNCHANGED <<dbOutcome, dbResult, dbThrown>>
       ELSE dbSettle(Completion("return", <<>>, NoDbError))
    /\ UNCHANGED <<connectionPool, createConnectionPool, connection, dbAttempt, dbReleases,
                   dbExecutes, dbResets, dbError, dbCaught, dbCompletion, txVars>>
    /\ UNCHANGED notDbVars

\* connection = await this.getConnection()
DbGetConnection ==
    /\ dbPc = "try"
    /\ \E r \in getConnection(connectionPool) :
          IF r.ok
          THEN dbObtain /\ dbPc' = "connected" /\ UNCHANGED dbError
          ELSE dbError' = r.error /\ dbPc' = "catch" /\ UNCHANGED <<connection, dbReleases>>
    /\ UNCHANGED <<connectionPool, createConnectionPool, dbMethod, dbQuery, dbAttempt,
                   dbExecutes, dbResets, dbCaught, dbCompletion, dbOutcome, dbResult,
                   dbThrown, txVars>>
    /\ UNCHANGED notDbVars

\* await connection.query('SET SESSION wait_timeout = ?', ...)
DbSetTimeout ==
    /\ dbPc = "connected"
    /\ \/ dbPc' = "configured" /\ UNCHANGED dbError
       \/ \E e \in DriverErrors : dbError' = e /\ dbPc' = "catch"
    /\ UNCHANGED <<connectionPool, createConnectionPool, dbMethod, dbQuery, connection,
                   dbAttempt, dbReleases, dbExecutes, dbResets, dbCaught, dbCompletion,
                   dbOutcome, dbResult, dbThrown, txVars>>
    /\ UNCHANGED notDbVars

\* connection.execute(query, params) raced against the timer; return on success
DbExecute ==
    /\ dbPc = "configured"
    /\ dbExecutes' = dbExecutes + 1
    /\ \/ /\ dbCompletion' = Completion("return", Rows(dbQuery.text), NoDbError)
          /\ dbPc' = "finally"
          /\ UNCHANGED dbError
       \/ /\ \E e \in DriverErrors \cup {QueryTimeout} : dbError' = e
          /\ dbPc' = "catch"
          /\ UNCHANGED dbCompletion
    /\ UNCHANGED <<connectionPool, createConnectionPool, dbMethod, dbQuery, connection,
                   dbAttempt, dbReleases, dbResets, dbCaught, dbOutcome, dbResult,
                   dbThrown, txVars>>
    /\ UNCHANGED notDbVars

\* the catch block up to its first await or its throw
DbCatch ==
    /\ dbPc = "catch"
    /\ dbAttempt' = dbNextAttempt(dbAttempt)
    /\ dbCaught' = Append(dbCaught, dbError)
    /\ LET throw(message) ==
               /\ dbCompletion' = Completion("throw", <<>>, DbError("Error", "none", message))
               /\ dbPc' = "finally"
       IN  IF isDeadlockError(dbError)
           THEN IF dbAttemptsLeft(dbAttempt')
                THEN dbCompletion' = Completion("continue", <<>>, NoDbError) /\ dbPc' = "delay"
                ELSE throw(MsgDeadlockAfterRetries)
           ELSE IF isConnectionError(dbError)
           THEN IF dbAttemptsLeft(dbAttempt')
                THEN dbCompletion' = Completion("continue", <<>>, NoDbError) /\ dbPc' = "reset"
                ELSE throw(MsgConnectionAfterRetries)
           ELSE IF isConstraintError(dbError)
           THEN throw(<<"Database", "constraint", "violation", ":">>
                      \o parseConstraintError(dbError))
           ELSE IF Includes(dbError.message, <<"timeout">>)
           THEN throw(<<"Database", "query", "timed", "out", "-", "operation", "took",
                        "too", "long">>)
           ELSE throw(<<"Database", "operation", "failed", ":">> \o dbError.message)
    /\ UNCHANGED <<connectionPool, createConnectionPool, dbMethod, dbQuery, connection,
                   dbReleases, dbExecutes, dbResets, dbError, dbOutcome, dbResult,
                   dbThrown, txVars>>
    /\ UNCHANGED notDbVars

\* await this.resetConnection() in the catch block: its error leaves the block
DbReset ==
    /\ dbPc = "reset"
    /\ \E r \in resetConnection(connectionPool, createConnectionPool) :
          IF r.ok
          THEN /\ connectionPool' = "pool"
               /\ dbResets' = dbResets + 1
               /\ dbPc' = "delay"
               /\ UNCHANGED dbCompletion
          ELSE /\ dbCompletion' = Completion("throw", <<>>, r.error)
               /\ dbPc' = "finally"
               /\ UNCHANGED <<connectionPool, dbResets>>
    /\ UNCHANGED <<createConnectionPool, dbMethod, dbQuery, connection, dbAttempt,
                   dbReleases, dbExecutes, dbError, dbCaught, dbOutcome, dbResult,
                   dbThrown, txVars>>
    /\ UNCHANGED notDbVars

\* await this.delay(...); continue
DbDelay ==
    /\ dbPc = "delay"
    /\ dbPc' = "finally"
    /\ UNCHANGED <<connectionPool, createConnectionPool, dbMethod, dbQuery, connection,
                   dbAttempt, dbReleases, dbExecutes, dbResets, dbError, dbCaught,
                   dbCompletion, dbOutcome, dbResult, dbThrown, txVars>>
    /\ UNCHANGED notDbVars

\* the finally block, then what the try statement completed with: return, throw,
\* or continue to the test of the loop (the function ends when the loop does)
DbFinally ==
    /\ dbPc = "finally"
    /\ dbRelease
    /\ IF dbCompletion.type = "continue" /\ dbAttemptsLeft(dbAttempt)
       THEN dbPc' = "try" /\ UNCHANGED <<dbOutcome, dbResult, dbThrown>>
       ELSE dbSettle(dbCompletion)
    /\ UNCHANGED <<connectionPool, createConnectionPool, dbMethod, dbQuery, connection,
                   dbAttempt, dbExecutes, dbResets, dbError, dbCaught, dbCompletion, txVars>>
    /\ UNCHANGED notDbVars

\* a variant that leaves the loop before the last operation
txLoopTest_SkipLast(i, ops) == i + 1 < Len(ops)

\* i < operations.length
txLoopTest(i, ops) == i < Len(ops)

transaction(ops) ==
    /\ dbPc = "idle"
    /\ dbMethod' = "transaction"
    /\ operations' = ops.items
    /\ IF ~ops.isArray \/ Len(ops.items) = 0
       THEN dbSettle(Completion("throw", <<>>,
                DbError("Error", "none",
                        <<"Transaction", "operations", "must", "be", "a", "non-empty",
                          "array">>)))
       ELSE dbPc' = "txConnect" /\ UNCHANGED <<dbOutcome, dbResult, dbThrown>>
    /\ UNCHANGED <<connectionPool, createConnectionPool, dbQuery, connection, dbAttempt,
                   dbReleases, dbExecutes, dbResets, dbError, dbCaught, dbCompletion,
                   txI, txResults, txCommits, txRollbacks, txRollbackFailed>>
    /\ UNCHANGED notDbVars

\* connection = await this.getConnection()
TxGetConnection ==
    /\ dbPc = "txConnect"
    /\ \E r \in getConnection(connectionPool) :
          IF r.ok
          THEN dbObtain /\ dbPc' = "txBegin" /\ UNCHANGED dbError
          ELSE dbError' = r.error /\ dbPc' = "txCatch" /\ UNCHANGED <<connection, dbReleases>>
    /\ UNCHANGED <<connectionPool, createConnectionPool, dbMethod, dbQuery, dbAttempt,
                   dbExecutes, dbResets, dbCaught, dbCompletion, dbOutcome, dbResult,
                   dbThrown, txVars>>
    /\ UNCHANGED notDbVars

\* await connection.beginTransaction(); const results = []; i = 0
TxBeginTransaction ==
    /\ dbPc = "txBegin"
    /\ \/ dbPc' = "txLoop" /\ UNCHANGED dbError
       \/ \E e \in DriverErrors : dbError' = e /\ dbPc' = "txCatch"
    /\ UNCHANGED <<connectionPool, createConnectionPool, dbMethod, dbQuery, connection,
                   dbAttempt, dbReleases, dbExecutes, dbResets, dbCaught, dbCompletion,
                   dbOutcome, dbResult, dbThrown, txVars>>
    /\ UNCHANGED notDbVars

\* one turn of the loop: the operation is checked, executed and its rows pushed
TxOperation ==
    /\ dbPc = "txLoop"
    /\ txLoopTest(txI, operations)
    /\ LET operation == operations[txI + 1]
       IN  IF operation.query = "" \/ operation.params = "undefined"
           THEN /\ dbError' = DbError("Error", "none",
                                <<"Invalid", "operation", "at", "index", ToString(txI), ":",
                                  "missing", "query", "or", "params">>)
                /\ dbPc' = "txCatch"
                /\ UNCHANGED <<dbExecutes, txI, txResults>>
           ELSE /\ dbExecutes' = dbExecutes + 1
                /\ \/ /\ txResults' = Append(txResults, Rows(operation.query))
                      /\ txI' = txI + 1
                      /\ UNCHANGED <<dbPc, dbError>>
                   \/ /\ \E e \in DriverErrors :
                            dbError' = DbError("Error", "none",
                                           <<"Transaction", "failed", "at", "operation",
                                             ToString(txI + 1), ":">> \o e.message)
                      /\ dbPc' = "txCatch"
                      /\ UNCHANGED <<txI, txResults>>
    /\ UNCHANGED <<connectionPool, createConnectionPool, dbMethod, dbQuery, connection,
                   dbAttempt, dbReleases, dbResets, dbCaught, dbCompletion, dbOutcome,
                   dbResult, dbThrown, operations, txCommits, txRollbacks,
                   txRollbackFailed>>
    /\ UNCHANGED notDbVars

\* the loop is over: await connection.commit(); return results
TxCommit ==
    /\ dbPc = "txLoop"
    /\ ~txLoopTest(txI, operations)
    /\ txCommits' = txCommits + 1
    /\ \/ /\ dbCompletion' = Completion("return", txResults, NoDbError)
          /\ dbPc' = "txFinally"
          /\ UNCHANGED dbError
       \/ /\ \E e \in DriverErrors : dbError' = e
          /\ dbPc' = "txCatch"
          /\ UNCHANGED dbCompletion
    /\ UNCHANGED <<connectionPool, createConnectionPool, dbMethod, dbQuery, connection,
                   dbAttempt, dbReleases, dbExecutes, dbResets, dbCaught, dbOutcome,
                   dbResult, dbThrown, operations, txI, txResults, txRollbacks,
                   txRollbackFailed>>
    /\ UNCHANGED notDbVars

\* the catch block: rollback on the connection if there is one, its error only
\* logged; throw error
TxCatch ==
    /\ dbPc = "txCatch"
    /\ IF connection # 0
       THEN /\ txRollbacks' = txRollbacks + 1
            /\ \E failed \in BOOLEAN : txRollbackFailed' = failed
       ELSE UNCHANGED <<txRollbacks, txRollbackFailed>>
    /\ dbCompletion' = Completion("throw", <<>>, dbError)
    /\ dbPc' = "txFinally"
    /\ UNCHANGED <<connectionPool, createConnectionPool, dbMethod, dbQuery, connection,
                   dbAttempt, dbReleases, dbExecutes, dbResets, dbError, dbCaught,
                   dbOutcome, dbResult, dbThrown, operations, txI, txResults, txCommits>>
    /\ UNCHANGED notDbVars

\* the finally block, then the return or the throw
TxFinally ==
    /\ dbPc = "txFinally"
    /\ dbRelease
    /\ dbSettle(dbCompletion)
    /\ UNCHANGED <<connectionPool, createConnectionPool, dbMethod, dbQuery, connection,
                   dbAttempt, dbExecutes, dbResets, dbError, dbCaught, dbCompletion, txVars>>
    /\ UNCHANGED notDbVars

\* the instance after the constructor, with or without a createConnectionPool
DbFresh(factory) ==
    /\ connectionPool = "null"
    /\ createConnectionPool = factory
    /\ dbPc = "idle"
    /\ dbMethod = "none"
    /\ dbQuery = [type |-> "string", text |-> <<>>]
    /\ connection = 0
    /\ dbAttempt = 0
    /\ dbReleases = <<>>
    /\ dbExecutes = 0
    /\ dbResets = 0
    /\ dbError = NoDbError
    /\ dbCaught = <<>>
    /\ dbCompletion = Completion("none", <<>>, NoDbError)
    /\ dbOutcome = "pending"
    /\ dbResult = <<>>
    /\ dbThrown = NoDbError
    /\ operations = <<>>
    /\ txI = 0
    /\ txResults = <<>>
    /\ txCommits = 0
    /\ txRollbacks = 0
    /\ txRollbackFailed = FALSE

\* the caller has the outcome; the locals of the call are gone
DbReturns ==
    /\ dbPc = "done"
    /\ dbPc' = "idle"
    /\ dbMethod' = "none"
    /\ dbQuery' = [type |-> "string", text |-> <<>>]
    /\ connection' = 0
    /\ dbAttempt' = 0
    /\ dbReleases' = <<>>
    /\ dbExecutes' = 0
    /\ dbResets' = 0
    /\ dbError' = NoDbError
    /\ dbCaught' = <<>>
    /\ dbCompletion' = Completion("none", <<>>, NoDbError)
    /\ dbOutcome' = "pending"
    /\ dbResult' = <<>>
    /\ dbThrown' = NoDbError
    /\ operations' = <<>>
    /\ txI' = 0
    /\ txResults' = <<>>
    /\ txCommits' = 0
    /\ txRollbacks' = 0
    /\ txRollbackFailed' = FALSE
    /\ UNCHANGED <<connectionPool, createConnectionPool>>
    /\ UNCHANGED notDbVars

\* a call of executeQuery with any query, and params an array, another object
\* or null
ExecuteQueryCall ==
    /\ dbPc = "idle"
    /\ \E query \in Queries, params \in {"array", "object", "null"} :
          executeQuery(query, params)

\* a call of transaction with any argument
TransactionCall ==
    /\ dbPc = "idle"
    /\ \E ops \in OperationArrays : transaction(ops)

----------------------------------------------------------------------------
\* processTextRobust and sanitizeFilePathRobust  (edge-case-scenarios.js,
\* lines 545-757)
\*
\* A string is the sequence of its characters; a character outside ASCII or
\* without a glyph goes by its name ("NUL", "VT", "NBSP", "U+0301", ...).  Each
\* regular expression is computed on the sequence as the engine computes it.

\* the characters of the model that \s matches and that trim() removes
WhiteSpace == {" ", "\t", "\n", "\r", "VT", "FF", "NBSP"}

\* String.prototype.replace(/pat/g, rep) for a literal pattern: one scan from
\* the left, the text put in place of a match is not scanned again
RECURSIVE ReplaceAll(_, _, _)
ReplaceAll(s, pat, rep) ==
    IF Len(s) < Len(pat)
    THEN s
    ELSE IF SubSeq(s, 1, Len(pat)) = pat
    THEN rep \o ReplaceAll(SubSeq(s, Len(pat) + 1, Len(s)), pat, rep)
    ELSE <<Head(s)>> \o ReplaceAll(Tail(s), pat, rep)

\* replace(/^[set]+|[set]+$/g, ''), which is trim() when set is WhiteSpace
Strip(s, set) ==
    LET kept == {i \in 1..Len(s) : s[i] \notin set}
    IN  IF kept = {}
        THEN <<>>
        ELSE SubSeq(s, CHOOSE i \in kept : \A j \in kept : i <= j,
                       CHOOSE i \in kept : \A j \in kept : j <= i)

\* an argument that is a string, and the argument null
Str(chars) == [type |-> "string", chars |-> chars]

DefaultTextOptions ==
    [maxLength |-> 1000000, normalizeWhitespace |-> TRUE, stripHTML |-> FALSE,
     preserveLineBreaks |-> TRUE, handleUnicode |-> TRUE, removeControlChars |-> TRUE,
     trimText |-> TRUE]

TextOptions ==
    { DefaultTextOptions,
      [DefaultTextOptions EXCEPT !.preserveLineBreaks = FALSE],
      [DefaultTextOptions EXCEPT !.normalizeWhitespace = FALSE],
      [DefaultTextOptions EXCEPT !.stripHTML = TRUE],
      [DefaultTextOptions EXCEPT !.removeControlChars = FALSE],
      [DefaultTextOptions EXCEPT !.trimText = FALSE],
      [DefaultTextOptions EXCEPT !.handleUnicode = FALSE],
      [DefaultTextOptions EXCEPT !.maxLength = 3] }

\* the texts processTextRobust is applied to: every text of up to MaxTextLen
\* letters, spaces and line-break characters, and texts with the other characters
\* the function looks for
Texts ==
    { Str(chars) :
        chars \in UNION { [1..n -> {"a", " ", "\n", "\r"}] : n \in 0..MaxTextLen } }
    \cup { Str(<<"a", "\t", "b">>), Str(<<"a", "NBSP", "b">>), Str(<<"a", "NUL", "b">>),
           Str(<<"a", "VT", "\n", "FF", "b">>), Str(<<"a", "DEL">>),
           Str(<<"<", "b", ">", "a", "<", "/", "b", ">">>),
           Str(<<"a", "<", "\n", ">", "b">>),
           Str(<<"&", "a", "m", "p", ";", "l", "t", ";">>),
           Str(<<"&", "l", "t", ";", "b", "&", "g", "t", ";">>),
           Str(<<"&", "q", "u", "o", "t", ";", "&", "#", "3", "9", ";">>),
           Str(<<"a", "&", "n", "b", "s", "p", ";", " ", "b">>),
           Str(<<"e", "U+0301">>), Str(<<"ALEF", " ">>), Str(<<"a", "\n", "ALEF">>),
           [type |-> "null", chars |-> <<>>] }

\* replace(/<[^>]*>/g, '')
RECURSIVE StripTags(_)
StripTags(s) ==
    IF s = <<>>
    THEN <<>>
    ELSE IF Head(s) = "<" /\ \E i \in 2..Len(s) : s[i] = ">"
    THEN LET close == CHOOSE i \in 2..Len(s) :
                          s[i] = ">" /\ \A j \in 2..(i - 1) : s[j] # ">"
         IN  StripTags(SubSeq(s, close + 1, Len(s)))
    ELSE <<Head(s)>> \o StripTags(Tail(s))

\* replace(/ {2,}/g, ' ')
RECURSIVE Collapse(_)
Collapse(s) ==
    IF Len(s) < 2
    THEN s
    ELSE IF s[1] = " " /\ s[2] = " "
    THEN Collapse(Tail(s))
    ELSE <<Head(s)>> \o Collapse(Tail(s))

processTextRobust(text, options) ==
    LET limit(s) == IF Len(s) > options.maxLength THEN SubSeq(s, 1, options.maxLength) ELSE s
        \* replace(/[\x00-\x08\x0B\x0C\x0E-\x1F\x7F]/g, '')
        control(s) == IF options.removeControlChars
                      THEN SelectSeq(s, LAMBDA c : c \notin {"NUL", "VT", "FF", "DEL"})
                      ELSE s
        html(s) == IF options.stripHTML
                   THEN ReplaceAll(ReplaceAll(ReplaceAll(ReplaceAll(ReplaceAll(ReplaceAll(
                            StripTags(s),
                            <<"&", "a", "m", "p", ";">>, <<"&">>),
                            <<"&", "l", "t", ";">>, <<"<">>),
                            <<"&", "g", "t", ";">>, <<">">>),
                            <<"&", "q", "u", "o", "t", ";">>, <<"\"">>),
                            <<"&", "#", "3", "9", ";">>, <<"'">>),
                            <<"&", "n", "b", "s", "p", ";">>, <<" ">>)
                   ELSE s
        \* replace(/[\s ...]/g, ' ')
        spaces(s) == [i \in 1..Len(s) |-> IF s[i] \in WhiteSpace THEN " " ELSE s[i]]
        \* replace(/\r\n/g, '\n').replace(/\r/g, '\n')
        endings(s) == ReplaceAll(ReplaceAll(s, <<"\r", "\n">>, <<"\n">>), <<"\r">>, <<"\n">>)
        breaks(s) == IF ~options.preserveLineBreaks
                     THEN ReplaceAll(s, <<"\n">>, <<" ">>)
                     ELSE s
        whitespace(s) == IF options.normalizeWhitespace
                         THEN Collapse(breaks(endings(spaces(s))))
                         ELSE s
        \* normalize('NFC'): the one decomposed letter of the model is composed
        unicode(s) == IF options.handleUnicode
                      THEN ReplaceAll(s, <<"e", "U+0301">>, <<"U+00E9">>)
                      ELSE s
        \* right-to-left letters: the text goes between U+202B and U+202C
        bidi(s) == IF \E i \in 1..Len(s) : s[i] = "ALEF"
                   THEN <<"U+202B">> \o s \o <<"U+202C">>
                   ELSE s
        trim(s) == IF options.trimText THEN Strip(s, WhiteSpace) ELSE s
    IN  IF text.type = "null" \/ text.chars = <<>>
        THEN <<>>
        ELSE SelectSeq(trim(bidi(unicode(whitespace(html(control(limit(text.chars))))))),
                       LAMBDA c : c # "NUL")

\* the defaults of the options, and options that change one or two of them
PathOptions ==
    LET defaults == [maxLength |-> 260, allowRelativePaths |-> FALSE,
                     preserveExtension |-> TRUE, os |-> "linux"]
    IN  { defaults,
          [defaults EXCEPT !.allowRelativePaths = TRUE],
          [defaults EXCEPT !.os = "win32"],
          [defaults EXCEPT !.os = "darwin"],
          [defaults EXCEPT !.maxLength = 4],
          [defaults EXCEPT !.maxLength = 4, !.preserveExtension = FALSE] }

\* the paths sanitizeFilePathRobust is applied to: every path of up to MaxPathLen
\* dots, slashes and letters, and paths with the other characters and the names
\* the function looks for
Paths ==
    { Str(chars) :
        chars \in UNION { [1..n -> {".", "/", "a"}] : n \in 0..MaxPathLen } }
    \cup { Str(<<".", ".", "\\", "a">>), Str(<<"a", "\\", ".", ".", "\\", "b">>),
           Str(<<"a", "/", ".", ".", ".", ".", "/", "/", "b">>),
           Str(<<".", ".", ".", ".", "\\", "\\", "a">>),
           Str(<<" ", " ">>), Str(<<" ", "a", ".", " ">>), Str(<<"a", ":", "b", "?">>),
           Str(<<"a", "NUL", "b">>), Str(<<"C", "O", "N">>),
           Str(<<"a", "/", "c", "o", "n", ".", "t", "x">>),
           Str(<<"C", "O", "M", "1">>), Str(<<"C", "O", "M", "a">>),
           Str(<<"C", "O", "N", "a">>), Str(<<"a", "a", "a", ".", "t", "x", "t">>),
           Str(<<"e", "U+0301">>),
           [type |-> "null", chars |-> <<>>] }

sanitizeFilePathRobust(filePath, options) ==
    LET last(set) == CHOOSE i \in set : \A j \in set : j <= i
        \* replace(/\\/g, '/')
        separators(s) == [i \in 1..Len(s) |-> IF s[i] = "\\" THEN "/" ELSE s[i]]
        \* replace(/\.\.\/|\.\.\\|\.\.\//g, ''): no backslash is left to match
        traversal(s) == IF /\ \/ Includes(s, <<".", ".", "/">>)
                              \/ Includes(s, <<".", ".", "\\">>)
                           /\ ~options.allowRelativePaths
                        THEN ReplaceAll(s, <<".", ".", "/">>, <<>>)
                        ELSE s
        \* replace(/[<>:"|?*\x00-\x1f]/g, '_')
        dangerous(s) == [i \in 1..Len(s) |->
                            IF s[i] \in {"<", ">", ":", "\"", "|", "?", "*", "NUL", "\t",
                                         "\n", "\r", "VT", "FF"}
                            THEN "_" ELSE s[i]]
        \* the /i flag, on the letters of the model
        upper(c) == CASE c = "c" -> "C" [] c = "o" -> "O" [] c = "n" -> "N"
                      [] c = "a" -> "A" [] c = "t" -> "T" [] c = "x" -> "X"
                      [] OTHER -> c
        \* /^(CON|PRN|AUX|NUL|COM[1-9]|LPT[1-9])(\.|$)/i
        reservedNames(name) ==
            \E n \in {3, 4} :
                /\ Len(name) >= n
                /\ \/ /\ n = 3
                      /\ [i \in 1..3 |-> upper(name[i])] \in
                            {<<"C", "O", "N">>, <<"P", "R", "N">>, <<"A", "U", "X">>,
                             <<"N", "U", "L">>}
                   \/ /\ n = 4
                      /\ [i \in 1..3 |-> upper(name[i])] \in
                            {<<"C", "O", "M">>, <<"L", "P", "T">>}
                      /\ name[4] \in {"1", "2", "3", "4", "5", "6", "7", "8", "9"}
                /\ Len(name) = n \/ name[n + 1] = "."
        \* the part after the last '/', with '_' before it when it is reserved
        reserved(s) ==
            LET slashes == {i \in 1..Len(s) : s[i] = "/"}
                start == IF slashes = {} THEN 1 ELSE 1 + last(slashes)
            IN  IF reservedNames(SubSeq(s, start, Len(s)))
                THEN SubSeq(s, 1, start - 1) \o <<"_">> \o SubSeq(s, start, Len(s))
                ELSE s
        \* lastIndexOf('.') counts from 0: lastDot > 0 is a dot after the first place
        long(s) ==
            LET dots == {i \in 1..Len(s) : s[i] = "."}
                lastDot == IF dots = {} THEN 0 ELSE last(dots)
                extension == IF lastDot > 1 THEN SubSeq(s, lastDot, Len(s)) ELSE <<>>
                nameWithoutExt == IF lastDot > 1 THEN SubSeq(s, 1, lastDot - 1) ELSE s
            IN  IF Len(s) > options.maxLength
                THEN IF options.preserveExtension
                     THEN SubSeq(nameWithoutExt, 1, options.maxLength - Len(extension))
                          \o extension
                     ELSE SubSeq(s, 1, options.maxLength)
                ELSE s
        \* normalize('NFC'): the one decomposed letter of the model is composed
        unicode(s) == ReplaceAll(s, <<"e", "U+0301">>, <<"U+00E9">>)
        \* replace(/^[\s.]+|[\s.]+$/g, '')
        ends(s) == Strip(s, WhiteSpace \cup {"."})
        \* replace(/[\s.]+$/g, '')
        windows(s) ==
            LET kept == {i \in 1..Len(s) : s[i] \notin WhiteSpace \cup {"."}}
            IN  IF kept = {} THEN <<>> ELSE SubSeq(s, 1, last(kept))
        \* replace(/:/g, '_')
        macos(s) == [i \in 1..Len(s) |-> IF s[i] = ":" THEN "_" ELSE s[i]]
        platform(s) == IF s = <<>>
                       THEN <<"u", "n", "n", "a", "m", "e", "d", "_", "f", "i", "l", "e">>
                       ELSE IF options.os = "win32" THEN windows(s)
                       ELSE IF options.os = "darwin" THEN macos(s)
                       ELSE s
    IN  IF filePath.type = "null" \/ Strip(filePath.chars, WhiteSpace) = <<>>
        THEN <<>>
        ELSE platform(ends(unicode(long(reserved(dangerous(traversal(
                 separators(filePath.chars))))))))

\* nothing has been called
SanFresh(function, input, options) ==
    /\ sanPc = "called"
    /\ sanFunction = function
    /\ sanInput = input
    /\ sanOptions = options
    /\ sanOutput = <<>>

\* processTextRobust(text, options) returns
ProcessText ==
    /\ sanPc = "called"
    /\ sanFunction = "processTextRobust"
    /\ sanOutput' = processTextRobust(sanInput, sanOptions)
    /\ sanPc' = "returned"
    /\ UNCHANGED <<sanFunction, sanInput, sanOptions>>
    /\ UNCHANGED notSanVars

\* sanitizeFilePathRobust(filePath, options) returns
SanitizeFilePath ==
    /\ sanPc = "called"
    /\ sanFunction = "sanitizeFilePathRobust"
    /\ sanOutput' = sanitizeFilePathRobust(sanInput, sanOptions)
    /\ sanPc' = "returned"
    /\ UNCHANGED <<sanFunction, sanInput, sanOptions>>
    /\ UNCHANGED notSanVars

----------------------------------------------------------------------------
\* Specifications

InitApi ==
    /\ now = 0
    /\ localStorage \in { [token |-> <<>>, tokenExpiry |-> <<>>],
                          [token |-> <<<<"h", "p", "s">>>>, tokenExpiry |-> <<MaxTime>>] }
    /\ \E options \in ClientOptions : ApiFresh(options)
    /\ LoginFresh
    /\ UploadFresh
    /\ DbFresh("undefined")
    /\ SanFresh("none", Str(<<>>), DefaultTextOptions)

NextApi ==
    \/ \E c \in Calls, endpoint \in Endpoints, online \in BOOLEAN : Request(c, endpoint, online)
    \/ \E c \in Calls, resp \in ApiResponses : FetchSettles(c, resp)
    \/ \E c \in Calls, online \in BOOLEAN : RetryDelayElapses(c, online)
    \/ \E c \in Calls : RequestReturns(c)
    \/ Tick

SpecApi == InitApi /\ [][NextApi]_vars

\* a pending fetch settles (the timeout of line 405 aborts it at the latest) and
\* the timer of a retry delay fires
FairSpecApi ==
    /\ SpecApi
    /\ \A c \in Calls : WF_vars(\E resp \in ApiResponses : FetchSettles(c, resp))
    /\ \A c \in Calls : WF_vars(\E online \in BOOLEAN : RetryDelayElapses(c, online))

InitLogin ==
    /\ now = 0
    /\ localStorage = [token |-> <<>>, tokenExpiry |-> <<>>]
    /\ ApiFresh(DefaultOptions)
    /\ LoginFresh
    /\ UploadFresh
    /\ DbFresh("undefined")
    /\ SanFresh("none", Str(<<>>), DefaultTextOptions)

NextLogin ==
    \/ LoginCall
    \/ \E resp \in LoginResponses, failAt \in 0..2 : LoginFetchSettles(resp, failAt)
    \/ LoginDelayElapses
    \/ LoginReturns

SpecLogin == InitLogin /\ [][NextLogin]_vars

\* a pending fetch settles (the timeout of line 246 aborts it at the latest) and
\* the timer of a backoff delay fires
FairSpecLogin ==
    /\ SpecLogin
    /\ WF_vars(\E resp \in LoginResponses, failAt \in 0..2 : LoginFetchSettles(resp, failAt))
    /\ WF_vars(LoginDelayElapses)

InitUpload ==
    /\ now = 0
    /\ localStorage = [token |-> <<<<"h", "p", "s">>>>, tokenExpiry |-> <<DayMs>>]
    /\ ApiFresh(DefaultOptions)
    /\ LoginFresh
    /\ UploadFresh
    /\ DbFresh("undefined")
    /\ SanFresh("none", Str(<<>>), DefaultTextOptions)

NextUpload ==
    \/ UploadCall
    \/ \E resp \in InitResponses : InitSettles(resp)
    \/ \E ev \in XhrEvents : XhrEvent(ev)
    \/ CleanupSettles
    \/ UploadReturns

SpecUpload == InitUpload /\ [][NextUpload]_vars

InitDb ==
    /\ now = 0
    /\ localStorage = [token |-> <<>>, tokenExpiry |-> <<>>]
    /\ ApiFresh(DefaultOptions)
    /\ LoginFresh
    /\ UploadFresh
    /\ \E factory \in {"undefined", "function"} : DbFresh(factory)
    /\ SanFresh("none", Str(<<>>), DefaultTextOptions)

NextDb ==
    \/ ExecuteQueryCall
    \/ DbGetConnection
    \/ DbSetTimeout
    \/ DbExecute
    \/ DbCatch
    \/ DbReset
    \/ DbDelay
    \/ DbFinally
    \/ TransactionCall
    \/ TxGetConnection
    \/ TxBeginTransaction
    \/ TxOperation
    \/ TxCommit
    \/ TxCatch
    \/ TxFinally
    \/ DbReturns

SpecDb == InitDb /\ [][NextDb]_vars

\* one call of either function, with any argument and options
InitSan ==
    /\ now = 0
    /\ localStorage = [token |-> <<>>, tokenExpiry |-> <<>>]
    /\ ApiFresh(DefaultOptions)
    /\ LoginFresh
    /\ UploadFresh
    /\ DbFresh("undefined")
    /\ \/ \E text \in Texts, options \in TextOptions :
             SanFresh("processTextRobust", text, options)
       \/ \E filePath \in Paths, options \in PathOptions :
             SanFresh("sanitizeFilePathRobust", filePath, options)

NextSan ==
    \/ ProcessText
    \/ SanitizeFilePath

SpecSan == InitSan /\ [][NextSan]_vars

----------------------------------------------------------------------------
\* Claims about ApiClient

\* C1: a call of request made while circuitBreaker.failures >= threshold and less
\* than resetTimeout ms after circuitBreaker.lastFailure rejects at once with
\* 'Service temporarily unavailable. Please try again later.' and issues no fetch.
C1_OpenCircuitRejectsWithoutFetch ==
    [][\A c \in Calls :
          (/\ apiPc[c] = "idle" /\ apiPc'[c] # "idle"
           /\ cbFailures >= cbThreshold
           /\ cbLastFailure # Null
           /\ now - cbLastFailure < cbResetTimeout)
          => (/\ apiPc'[c] = "done"
              /\ apiOutcome'[c] = "rejected"
              /\ apiThrown'[c] = Error("Error", MsgUnavailable)
              /\ apiFetches'[c] = 0)]_vars

\* a call was rejected by the open circuit: no attempt, no fetch
C1_Witness ==
    \E c \in Calls :
        /\ apiPc[c] = "done" /\ apiOutcome[c] = "rejected"
        /\ apiAttempt[c] = 0 /\ apiFetches[c] = 0
        /\ apiThrown[c] = Error("Error", MsgUnavailable)
        /\ cbFailures >= cbThreshold /\ now - cbLastFailure < cbResetTimeout

\* C2: the step in which an attempt of request succeeds sets
\* circuitBreaker.failures to 0 and circuitBreaker.lastFailure to null, whatever
\* they were, so that the circuit is closed afterwards.
C2_SuccessResetsCircuitBreaker ==
    [][\A c \in Calls :
          (apiPc[c] = "fetching" /\ apiOutcome'[c] = "resolved")
          => (cbFailures' = 0 /\ cbLastFailure' = Null /\ cbFailures' < cbThreshold')]_vars

\* a call succeeded on a retry after an attempt that counted as a server failure
C2_Witness ==
    \E c \in Calls :
        /\ apiPc[c] = "done" /\ apiOutcome[c] = "resolved"
        /\ apiAttempt[c] >= 2 /\ isServerError(apiLastError[c])
        /\ cbFailures = 0 /\ cbLastFailure = Null

\* C3: request never schedules a retry after a 4xx response: a call that waits
\* for its next attempt has had a network failure, a timeout or a 5xx response.
C3_NoRetryAfterClientError ==
    \A c \in Calls :
        apiPc[c] = "waiting" => (apiLastStatus[c] = 0 \/ apiLastStatus[c] >= 500)

\* C4: one call of request issues at most maxRetries fetches (3 with the default
\* options), a call that made an attempt and rejects does so with the error of
\* its last attempt, and every call ends.
C4_BoundedAttemptsLastErrorThrown ==
    /\ [](\A c \in Calls :
            /\ apiFetches[c] <= maxRetries
            /\ apiAttempt[c] <= maxRetries
            /\ (apiPc[c] = "done" /\ apiOutcome[c] = "rejected" /\ apiAttempt[c] >= 1)
                   => (apiThrown[c] = apiLastError[c] /\ apiLastError[c] # NoError))
    /\ \A c \in Calls : (apiPc[c] # "idle") ~> (apiPc[c] = "done")

\* a call with the default options used all three attempts and rejected with the
\* error of the third
C4_Witness ==
    \E c \in Calls :
        /\ apiPc[c] = "done" /\ apiOutcome[c] = "rejected"
        /\ maxRetries = DefaultMaxRetries
        /\ apiFetches[c] = DefaultMaxRetries /\ apiAttempt[c] = DefaultMaxRetries
        /\ apiLastStatus[c] = 500
        /\ apiThrown[c] = Error("Error", MsgServerError)

\* C5: the step that handles a 401 response removes 'token' and 'tokenExpiry'
\* from localStorage, dispatches the call's first and only 'auth:logout' and ends
\* the call with 'Authentication required. Please log in again.'
C5_LogoutOnceOn401 ==
    [][\A c \in Calls :
          (apiPc[c] = "fetching" /\ apiPc'[c] # "fetching" /\ apiLastStatus'[c] = 401)
          => (/\ localStorage'["token"] = <<>>
              /\ localStorage'["tokenExpiry"] = <<>>
              /\ apiLogouts'[c] = 1
              /\ apiPc'[c] = "done"
              /\ apiOutcome'[c] = "rejected"
              /\ apiThrown'[c] = Error("Error", MsgAuthRequired))]_vars

\* a retried call got a 401 on its second attempt and logged out once
C5_Witness ==
    \E c \in Calls :
        /\ apiPc[c] = "done" /\ apiLastStatus[c] = 401
        /\ apiAttempt[c] = 2 /\ apiFetches[c] = 2
        /\ apiLogouts[c] = 1
        /\ localStorage = [token |-> <<>>, tokenExpiry |-> <<>>]
        /\ apiThrown[c] = Error("Error", MsgAuthRequired)

----------------------------------------------------------------------------
\* Claims about loginUserSecure

\* C6: a call of loginUserSecure whose email is missing, no string or does not
\* match the email pattern, or whose password is missing, no string or shorter
\* than 8 characters, throws a validation error at once, without a fetch and
\* without a change to localStorage.
C6_InvalidInputNoSideEffect ==
    [][(/\ loginPc = "idle" /\ loginPc' # "idle"
        /\ \/ loginEmail'.type # "string"
           \/ loginEmail'.chars = <<>>
           \/ ~emailRegexTest(loginEmail'.chars)
           \/ loginPassword'.type # "string"
           \/ loginPassword'.length < 8)
       => (/\ loginPc' = "done"
           /\ loginOutcome' = "thrown"
           /\ loginThrown'.name = "Error"
           /\ loginThrown'.message \in {MsgEmailRequired, MsgPasswordLength, MsgEmailInvalid}
           /\ loginFetches' = 0
           /\ localStorage' = localStorage)]_vars

\* after a successful login left a token in localStorage, a call with a well-formed
\* email and a password of 7 characters was refused without a fetch
C6_Witness ==
    /\ loginPc = "done" /\ loginOutcome = "thrown"
    /\ loginEmail.type = "string" /\ emailRegexTest(loginEmail.chars)
    /\ loginPassword.type = "string" /\ loginPassword.length = 7
    /\ loginThrown = Error("Error", MsgPasswordLength)
    /\ loginFetches = 0
    /\ localStorage["token"] # <<>>

\* C7: loginUserSecure never schedules a retry after a 401, a 429 or any other
\* 4xx response.
C7_NoRetryAfterClientError ==
    loginPc = "waiting" => ~(loginLastStatus >= 400 /\ loginLastStatus <= 499)

\* C8: one call of loginUserSecure issues at most 3 fetches; what it returns is
\* {success: true, user, token} of a response that passed every check; a call that
\* fetched and fails throws an Error with the message of its last failed attempt;
\* it has waited once between two attempts and not after the last one; and every
\* call ends.
C8_BoundedAttemptsLastMessageThrown ==
    /\ [](/\ loginFetches <= 3
          /\ loginPc = "fetching" => loginWaits = loginFetches - 1
          /\ loginPc = "waiting" => loginWaits = loginFetches /\ loginFetches < 3
          /\ (loginPc = "done" /\ loginFetches >= 1) => loginWaits = loginFetches - 1
          /\ (loginPc = "done" /\ loginOutcome = "returned")
                => (/\ loginResult.success
                    /\ loginResult.user # <<>>
                    /\ Len(loginResult.token) = 3
                    /\ loginLastStatus = 200)
          /\ (loginPc = "done" /\ loginOutcome = "thrown" /\ loginFetches >= 1)
                => (/\ loginLastError # NoError
                    /\ loginThrown = Error("Error", loginLastError.message)))
    /\ (loginPc # "idle") ~> (loginPc = "done")

\* a call used all three attempts, waited twice and threw the message of the third
C8_Witness ==
    /\ loginPc = "done" /\ loginOutcome = "thrown"
    /\ loginFetches = 3 /\ loginAttempt = 3 /\ loginWaits = 2
    /\ loginLastStatus = 503
    /\ loginLastError.name = "Error"
    /\ loginThrown = Error("Error", MsgLoginServerError)

----------------------------------------------------------------------------
\* Claims about uploadFileSecure

\* C9: a call of uploadFileSecure that rejects after it has obtained an uploadId
\* has issued exactly one DELETE /api/upload/{uploadId}, and that request has
\* completed.
C9_CleanupBeforeRejection ==
    (upPc = "done" /\ upOutcome = "rejected" /\ uploadId # <<>>)
        => (upDeletes = 1 /\ upDeletesDone = 1)

\* C10: a call of uploadFileSecure with a value that is no File, a file whose
\* type is not in allowedTypes, or a file larger than maxSize rejects at once,
\* with no init request, no upload request and no cleanup DELETE.
C10_InvalidFileNoRequest ==
    [][(/\ upPc = "idle" /\ upPc' # "idle"
        /\ \/ upFile'.kind # "File"
           \/ upFile'.type \notin allowedTypes(upOptions')
           \/ upFile'.size > maxSize(upOptions'))
       => (/\ upPc' = "done"
           /\ upOutcome' = "rejected"
           /\ upInits' = 0
           /\ upSends' = 0
           /\ upDeletes' = 0)]_vars

\* a File of an allowed type, one byte over the default maximum size, was
\* refused without a request
C10_Witness ==
    /\ upPc = "done" /\ upOutcome = "rejected"
    /\ upFile.kind = "File" /\ upFile.type = "image/png"
    /\ ~upOptions.allowedTypesGiven /\ upOptions.maxSize = 0
    /\ upFile.size = DefaultMaxSize + 1
    /\ upThrown = Error("Error", MsgFileSize(10))
    /\ upInits = 0 /\ upSends = 0 /\ upDeletes = 0

----------------------------------------------------------------------------
\* Claims about DatabaseService

\* C11: in a call of executeQuery every connection obtained from the pool is
\* released exactly once: never twice, and once at the latest when the call has
\* settled, whatever the attempts were (success, deadlock retry, connection-error
\* retry, failure of getConnection on a later attempt, terminal error).
C11_EveryConnectionReleasedOnce ==
    dbMethod = "executeQuery" =>
        /\ \A c \in 1..Len(dbReleases) : dbReleases[c] <= 1
        /\ dbPc = "done" => \A c \in 1..Len(dbReleases) : dbReleases[c] = 1

\* C12 (as stated): a call of executeQuery executes the query at most
\* retryAttempts times; an error followed by another attempt is a deadlock or a
\* connection error; a constraint violation, a query timeout and any error that is
\* neither a deadlock nor a connection error is the last one of the call, which
\* rejects.
C12_ConstraintViolationNeverRetried ==
    LET \* the attempts that have started: one per error caught, and the one
        \* under way or the one that returned
        started == Len(dbCaught)
                   + (IF \/ dbPc \in {"try", "connected", "configured", "catch"}
                         \/ dbCompletion.type = "return"
                      THEN 1 ELSE 0)
    IN
    dbMethod = "executeQuery" =>
        /\ dbExecutes <= retryAttempts
        /\ \A k \in 1..Len(dbCaught) :
              LET error == dbCaught[k]
              IN  /\ k < started =>
                        isDeadlockError(error) \/ isConnectionError(error)
                  /\ (\/ isConstraintError(error)
                      \/ error = QueryTimeout
                      \/ ~(isDeadlockError(error) \/ isConnectionError(error))) =>
                        /\ k = started
                        /\ dbCompletion.type = "throw"

\* C12 (amended): a call of executeQuery starts at most retryAttempts attempts and
\* executes the query at most retryAttempts times; an error followed by another
\* attempt is one isDeadlockError or isConnectionError accepts (by its code or by
\* the word in its message, whatever else the error is); an error neither accepts
\* is the last one of the call, which rejects without another attempt.
C12_BoundedRetriesOfRetryableErrors ==
    LET \* the attempts that have started: one per error caught, and the one
        \* under way or the one that returned
        started == Len(dbCaught)
                   + (IF \/ dbPc \in {"try", "connected", "configured", "catch"}
                         \/ dbCompletion.type = "return"
                      THEN 1 ELSE 0)
    IN
    dbMethod = "executeQuery" =>
        /\ dbExecutes <= retryAttempts
        /\ started <= retryAttempts
        /\ \A k \in 1..Len(dbCaught) :
              LET error == dbCaught[k]
              IN  /\ k < started =>
                        isDeadlockError(error) \/ isConnectionError(error)
                  /\ ~(isDeadlockError(error) \/ isConnectionError(error)) =>
                        /\ k = started
                        /\ dbPc \in {"finally", "done"}
                        /\ dbCompletion.type = "throw"
                        /\ dbPc = "done" => dbOutcome = "rejected"

\* the third attempt of a call executed the query as the two before it did, and
\* failed with an error that is not retried: the call has rejected
C12_Witness ==
    /\ dbMethod = "executeQuery"
    /\ dbPc = "done"
    /\ dbOutcome = "rejected"
    /\ dbExecutes = retryAttempts
    /\ Len(dbCaught) = retryAttempts
    /\ isConstraintError(dbCaught[retryAttempts])
    /\ ~isDeadlockError(dbCaught[retryAttempts])
    /\ ~isConnectionError(dbCaught[retryAttempts])

\* C13: a call of executeQuery all of whose attempts failed with a connection
\* error has made retryAttempts attempts, has reset the pool between them and
\* rejects with 'Database connection failed after retries'; one all of whose
\* attempts failed with a deadlock has made retryAttempts attempts and rejects
\* with 'Database deadlock - operation failed after retries'; a call that rejects
\* after deadlocks and connection errors only rejects with one of the two.
C13_ExhaustedRetriesRejectWithTheirMessage ==
    (/\ dbMethod = "executeQuery"
     /\ dbPc = "done"
     /\ dbOutcome = "rejected"
     /\ dbCaught # <<>>) =>
        /\ (\A k \in 1..Len(dbCaught) :
               isConnectionError(dbCaught[k]) /\ ~isDeadlockError(dbCaught[k])) =>
              /\ Len(dbCaught) = retryAttempts
              /\ dbResets = retryAttempts - 1
              /\ dbThrown.message = MsgConnectionAfterRetries
        /\ (\A k \in 1..Len(dbCaught) : isDeadlockError(dbCaught[k])) =>
              /\ Len(dbCaught) = retryAttempts
              /\ dbThrown.message = MsgDeadlockAfterRetries
        /\ (\A k \in 1..Len(dbCaught) :
               isDeadlockError(dbCaught[k]) \/ isConnectionError(dbCaught[k])) =>
              dbThrown.message \in {MsgConnectionAfterRetries, MsgDeadlockAfterRetries}

\* C14: in a call of transaction, commit is invoked at most once and only when
\* every operation of the array has been executed, in the order of the array, and
\* none is invalid; a call that resolves has committed, has not rolled back and
\* returns the rows in that order; a call with an invalid operation, a failed
\* operation or a failed commit rejects, and a call that rejects after it obtained
\* its connection has invoked rollback once, returns no result and rejects with
\* the error that made it fail, also when the rollback itself failed.
C14_TransactionAllOrNothing ==
    LET \* an operation lacks its query or its params
        txInvalid(operation) == operation.query = "" \/ operation.params = "undefined"
        \* the rows of the operations of the array, in the order of the array
        txRowsInOrder == [k \in 1..Len(operations) |-> Rows(operations[k].query)]
    IN
    dbMethod = "transaction" =>
        /\ txCommits <= 1
        /\ txCommits = 1 =>
              /\ txResults = txRowsInOrder
              /\ dbExecutes = Len(operations)
              /\ \A k \in 1..Len(operations) : ~txInvalid(operations[k])
        /\ txCommits = 0 => txRollbacks = 0 \/ dbPc \in {"txFinally", "done"}
        /\ dbPc = "done" =>
              /\ dbOutcome = "resolved" =>
                    /\ txCommits = 1
                    /\ txRollbacks = 0
                    /\ dbResult = txRowsInOrder
              /\ (\/ \E k \in 1..Len(operations) : txInvalid(operations[k])
                  \/ dbExecutes < Len(operations)
                  \/ txCommits = 1 /\ dbError # NoDbError) =>
                    dbOutcome = "rejected"
              /\ (dbOutcome = "rejected" /\ connection # 0) =>
                    /\ txRollbacks = 1
                    /\ dbResult = <<>>
                    /\ dbThrown = dbError
                    /\ dbThrown # NoDbError
                    /\ dbReleases[connection] = 1

\* the second operation of two failed after the first had executed, the rollback
\* failed as well, and the call has rejected with the error of the operation
C14_Witness ==
    /\ dbMethod = "transaction"
    /\ dbPc = "done"
    /\ Len(operations) = 2
    /\ Len(txResults) = 1
    /\ dbExecutes = 2
    /\ txRollbackFailed
    /\ dbOutcome = "rejected"
    /\ Includes(dbThrown.message, <<"Transaction", "failed", "at", "operation", "2">>)

----------------------------------------------------------------------------
\* Claims about sanitizeFilePathRobust and processTextRobust

\* C15: when allowRelativePaths is false, the path sanitizeFilePathRobust returns
\* contains no '../', whatever the path given (also one such as '....//', in which
\* taking out one '../' joins the two halves of another).
C15_NoTraversalInSanitizedPath ==
    (/\ sanFunction = "sanitizeFilePathRobust"
     /\ sanPc = "returned"
     /\ ~sanOptions.allowRelativePaths) =>
        ~Includes(sanOutput, <<".", ".", "/">>)

\* C16: with the default options, the text processTextRobust returns for a text
\* that begins and ends with a letter has one LF for each line break of the text
\* (a CRLF, a CR without LF after it, or an LF without CR before it), so that no
\* line break has become a space.
C16_LineBreaksPreserved ==
    (/\ sanFunction = "processTextRobust"
     /\ sanPc = "returned"
     /\ sanOptions = DefaultTextOptions
     /\ sanInput.chars # <<>>
     /\ Head(sanInput.chars) = "a"
     /\ sanInput.chars[Len(sanInput.chars)] = "a") =>
        LET text == sanInput.chars
            count(s, c) == Cardinality({i \in 1..Len(s) : s[i] = c})
            crlf == Cardinality({i \in 1..(Len(text) - 1) :
                                    text[i] = "\r" /\ text[i + 1] = "\n"})
        IN  count(sanOutput, "\n") = count(text, "\r") + count(text, "\n") - crlf

====
